---- MODULE Spec2Model ----
(***************************************************************************)
(* Model of the istio-workspace session manipulators: the Gateway, the     *)
(* VirtualService and the Deployment mutators and revertors, acting on a   *)
(* shared cluster on behalf of several sessions.                           *)
(*                                                                         *)
(* Go strings are modelled as sequences of one-character strings, so that  *)
(* strings.Split, strings.Join, strings.HasPrefix and strings.Contains are *)
(* computed the way the code computes them.                                *)
(***************************************************************************)
EXTENDS Integers, Sequences, FiniteSets, TLC

VARIABLES gws, vss, deps, refs, last, added, terminating, inflight, exec

vars == <<gws, vss, deps, refs, last, added, terminating, inflight, exec>>

----------------------------------------------------------------------------
(* Bounds of the model *)

MaxServers == 2
MaxHosts == 2

----------------------------------------------------------------------------
(* Strings *)

EmptyStr == <<>>

Dot == "."

Comma == ","

Dash == "-"

HasPrefix(s, p) == Len(p) <= Len(s) /\ SubSeq(s, 1, Len(p)) = p

Contains(s, sub) == \E i \in 0..(Len(s) - Len(sub)) : SubSeq(s, i + 1, i + Len(sub)) = sub

RECURSIVE SplitAcc(_, _, _, _)
SplitAcc(s, sep, cur, acc) ==
    IF s = <<>> THEN Append(acc, cur)
    ELSE IF Head(s) = sep THEN SplitAcc(Tail(s), sep, <<>>, Append(acc, cur))
    ELSE SplitAcc(Tail(s), sep, Append(cur, Head(s)), acc)

Split(s, sep) == SplitAcc(s, sep, <<>>, <<>>)

RECURSIVE Join(_, _)
Join(list, sep) ==
    IF list = <<>> THEN <<>>
    ELSE IF Len(list) = 1 THEN list[1]
    ELSE list[1] \o <<sep>> \o Join(Tail(list), sep)

SeqToSet(list) == {list[i] : i \in DOMAIN list}

(* a slice with element i (1-based) removed: append(s[:i], s[i+1:]...) *)
RemoveAt(list, i) == SubSeq(list, 1, i - 1) \o SubSeq(list, i + 1, Len(list))

----------------------------------------------------------------------------
(* Sessions and names *)

SessionD == <<"d">>

SessionD2 == <<"d", "2">>

Sessions == {SessionD, SessionD2}

GatewayKind == "Gateway"

VirtualServiceKind == "VirtualService"

DeploymentKind == "Deployment"

ActionCreated == "created"

ActionModified == "modified"

ActionLocated == "located"

GwName == <<"g">>

----------------------------------------------------------------------------
(* Gateway helpers: existInList, removeFromList *)

(* a membership test that finds nothing *)
neverInList(hosts, host) == FALSE

existInList(hosts, host) == \E i \in DOMAIN hosts : hosts[i] = host

removeFromList(hosts, host) ==
    IF existInList(hosts, host)
    THEN RemoveAt(hosts, CHOOSE i \in DOMAIN hosts :
                            hosts[i] = host /\ \A j \in 1..(i - 1) : hosts[j] # host)
    ELSE hosts

(* The value of the ike.hosts annotation as the code reads it: a missing key
   reads as the empty string. *)
IkeHostsValue(gw) == IF gw.hasIkeHosts THEN gw.ikeHosts ELSE EmptyStr

existingHostsOf(gw) ==
    IF IkeHostsValue(gw) # EmptyStr THEN Split(IkeHostsValue(gw), Comma) ELSE <<>>

(* mutateGateway, lines 515-524: the loop over one server's configured hosts.
   acc = [hosts, existing, added]; the range is over the host list as it was
   when the loop started. *)
RECURSIVE mutateHostLoop(_, _, _, _)
mutateHostLoop(name, orig, i, acc) ==
    IF i > Len(orig) THEN acc
    ELSE LET host == orig[i]
             newHost == name \o <<Dot>> \o host
             fresh == ~existInList(acc.existing, host) /\ ~existInList(acc.existing, newHost)
             existing1 == IF fresh THEN Append(acc.existing, newHost) ELSE acc.existing
             hosts1 == IF fresh THEN Append(acc.hosts, newHost) ELSE acc.hosts
             added1 == IF existInList(existing1, newHost)
                       THEN Append(acc.added, newHost) ELSE acc.added
         IN mutateHostLoop(name, orig, i + 1,
                           [hosts |-> hosts1, existing |-> existing1, added |-> added1])

(* strings.Join(strings.Split(existing, ".")[1:], ".") *)
baseHostOf(existing) == Join(Tail(Split(existing, Dot)), Dot)

(* mutateGateway, lines 525-530: re-add recorded hosts whose base host the
   server lists. *)
RECURSIVE mutateRepairLoop(_, _, _)
mutateRepairLoop(existingHosts, j, hosts) ==
    IF j > Len(existingHosts) THEN hosts
    ELSE LET existing == existingHosts[j]
             baseHost == baseHostOf(existing)
         IN mutateRepairLoop(existingHosts, j + 1,
                IF ~existInList(hosts, existing) /\ existInList(hosts, baseHost)
                THEN Append(hosts, existing) ELSE hosts)

(* mutateGateway, lines 513-532: the loop over the servers.
   acc = [servers, existing, added]. *)
RECURSIVE mutateServerLoop(_, _, _, _)
mutateServerLoop(name, servers, k, acc) ==
    IF k > Len(servers) THEN acc
    ELSE LET r == mutateHostLoop(name, servers[k], 1,
                      [hosts |-> servers[k], existing |-> acc.existing, added |-> acc.added])
             hosts == mutateRepairLoop(r.existing, 1, r.hosts)
         IN mutateServerLoop(name, servers, k + 1,
                [servers |-> Append(acc.servers, hosts),
                 existing |-> r.existing, added |-> r.added])

(* a mutation that starts from an empty list of recorded hosts instead of
   the ike.hosts of the gateway *)
mutateGatewayForgetting(name, source) ==
    LET r == mutateServerLoop(name, source.servers, 1,
                 [servers |-> <<>>, existing |-> <<>>, added |-> <<>>])
    IN [gw |-> [source EXCEPT !.servers = r.servers,
                              !.hasIkeHosts = TRUE,
                              !.ikeHosts = Join(r.existing, Comma)],
        addedHosts |-> r.added]

mutateGateway(name, source) ==
    LET r == mutateServerLoop(name, source.servers, 1,
                 [servers |-> <<>>, existing |-> existingHostsOf(source), added |-> <<>>])
    IN [gw |-> [source EXCEPT !.servers = r.servers,
                              !.hasIkeHosts = TRUE,
                              !.ikeHosts = Join(r.existing, Comma)],
        addedHosts |-> r.added]

(* revertGateway, lines 549-556: the loop over one server's hosts, removing in
   place. i is the 0-based Go index; acc = [hosts, removed]. *)
RECURSIVE revertHostLoop(_, _, _, _)
revertHostLoop(name, existingHosts, i, acc) ==
    IF ~(i < Len(acc.hosts)) THEN acc
    ELSE LET host == acc.hosts[i + 1]
         IN IF existInList(existingHosts, host) /\ HasPrefix(host, name \o <<Dot>>)
            THEN revertHostLoop(name, existingHosts, (i - 1) + 1,
                     [hosts |-> RemoveAt(acc.hosts, i + 1),
                      removed |-> Append(acc.removed, host)])
            ELSE revertHostLoop(name, existingHosts, i + 1, acc)

(* revertGateway, lines 547-558. acc = [servers, removed]. *)
RECURSIVE revertServerLoop(_, _, _, _, _)
revertServerLoop(name, existingHosts, servers, k, acc) ==
    IF k > Len(servers) THEN acc
    ELSE LET r == revertHostLoop(name, existingHosts, 0,
                      [hosts |-> servers[k], removed |-> acc.removed])
         IN revertServerLoop(name, existingHosts, servers, k + 1,
                [servers |-> Append(acc.servers, r.hosts), removed |-> r.removed])

(* revertGateway, lines 559-561 *)
RECURSIVE removeAllFromList(_, _, _)
removeAllFromList(existingHosts, toBeRemovedHosts, j) ==
    IF j > Len(toBeRemovedHosts) THEN existingHosts
    ELSE removeAllFromList(removeFromList(existingHosts, toBeRemovedHosts[j]),
                           toBeRemovedHosts, j + 1)

(* a revert that takes the session's hosts off the servers and leaves the
   annotation as it is *)
revertGatewayKeepingIkeHosts(name, source) ==
    [source EXCEPT !.servers =
        revertServerLoop(name, existingHostsOf(source), source.servers, 1,
            [servers |-> <<>>, removed |-> <<>>]).servers]

revertGateway(name, source) ==
    LET existing0 == existingHostsOf(source)
        r == revertServerLoop(name, existing0, source.servers, 1,
                 [servers |-> <<>>, removed |-> <<>>])
        existing1 == removeAllFromList(existing0, r.removed, 1)
    IN IF Len(existing1) = 0
       THEN [source EXCEPT !.servers = r.servers, !.hasIkeHosts = FALSE, !.ikeHosts = EmptyStr]
       ELSE [source EXCEPT !.servers = r.servers, !.hasIkeHosts = TRUE,
                           !.ikeHosts = Join(existing1, Comma)]

----------------------------------------------------------------------------
(* Ref: located targets and the ledger of resource statuses *)

NewSuccessResource(kind, name, action) ==
    [kind |-> kind, name |-> name, action |-> action, success |-> TRUE, hosts |-> EmptyStr]

NewFailedResource(kind, name, action) ==
    [kind |-> kind, name |-> name, action |-> action, success |-> FALSE, hosts |-> EmptyStr]

NewLocatedResource(kind, name, ikeHosts) ==
    [kind |-> kind, name |-> name, ikeHosts |-> ikeHosts]

(* a status with the same kind and name is replaced, otherwise appended *)
AddResourceStatus(statuses, st) ==
    IF \E i \in DOMAIN statuses : statuses[i].kind = st.kind /\ statuses[i].name = st.name
    THEN [i \in DOMAIN statuses |->
            IF statuses[i].kind = st.kind /\ statuses[i].name = st.name
            THEN st ELSE statuses[i]]
    ELSE Append(statuses, st)

RemoveResourceStatus(statuses, kind, name) ==
    LET Keep(x) == ~(x.kind = kind /\ x.name = name) IN SelectSeq(statuses, Keep)

GetResources(statuses, kind) ==
    LET Is(x) == x.kind = kind IN SelectSeq(statuses, Is)

GetTargets(targets, kind) ==
    LET Is(x) == x.kind = kind IN SelectSeq(targets, Is)

Namespace == <<"n">>

VersionV1 == <<"v", "1">>

HostR == [name |-> <<"r">>, namespace |-> Namespace]

StrategyClone == "prepared-image"

StrategyExisting == "existing"

NewRef(targets) ==
    [targets |-> targets, statuses |-> <<>>, version |-> VersionV1,
     hostNames |-> <<HostR>>, strategy |-> StrategyClone]

(* reference.Add / reference.Remove: the back-reference to the owning session *)
referenceAdd(name, obj) == [obj EXCEPT !.refs = @ \cup {name}]

referenceRemove(name, obj) == [obj EXCEPT !.refs = @ \ {name}]

(* The objects a call has read and not yet written back, and the resource
   version of the gateway on the server: no call is between its Get and its
   Update. *)
NoRead == <<>>

NoReads == [version |-> 0, read |-> [s \in Sessions |-> NoRead]]

(* The execute command is not running. *)
NotExecuting == [main |-> "none", loop |-> "none", value |-> 0, events |-> 0,
                 instances |-> <<>>, signal |-> "none", sentOnClosed |-> {}]

NoOp ==
    [op |-> "none", s |-> EmptyStr, err |-> FALSE, panic |-> FALSE, calls |-> <<>>,
     pre |-> <<>>, preCalls |-> <<>>, roundTrip |-> FALSE, again |-> FALSE,
     fault |-> "ok"]

(* What the step just taken was: the operation, its session, whether it
   returned an error or panicked, and the write calls it issued.
   A mutator step keeps the objects of its kind as they were when it started
   in pre, and sets again when it directly follows a successful run of the
   same mutator for the same session.
   A revertor step that directly follows a successful run of the mutator of
   its kind for the same session, and succeeds itself, sets roundTrip and
   keeps that mutator's pre and its calls (preCalls).
   fault is the kind of failure that a call of the step met, "ok" if none
   did. *)
RecordMutate(op, s, err, panic, calls, pre) ==
    [op |-> op, s |-> s, err |-> err, panic |-> panic, calls |-> calls,
     pre |-> pre, preCalls |-> <<>>, roundTrip |-> FALSE,
     again |-> last.op = op /\ last.s = s /\ ~last.err /\ ~last.panic,
     fault |-> "ok"]

RecordRevert(op, mutateOp, s, err, calls) ==
    LET rt == last.op = mutateOp /\ last.s = s /\ ~last.err /\ ~last.panic /\ ~err
    IN [op |-> op, s |-> s, err |-> err, panic |-> FALSE, calls |-> calls,
        pre |-> IF rt THEN last.pre ELSE <<>>,
        preCalls |-> IF rt THEN last.calls ELSE <<>>,
        roundTrip |-> rt, again |-> FALSE, fault |-> "ok"]

(* History of what each session's successful gateway mutations added and its
   successful reverts have not yet taken away: server host entries
   <<gateway, server index, host>> and ike.hosts entries <<gateway, host>>. *)
HostEntries(g) ==
    UNION {UNION {{<<n, k, g[n].servers[k][i]>> : i \in DOMAIN g[n].servers[k]} :
                    k \in DOMAIN g[n].servers} : n \in DOMAIN g}

IkeHostEntries(g) ==
    UNION {{<<n, h>> : h \in SeqToSet(existingHostsOf(g[n]))} : n \in DOMAIN g}

NothingAdded == [hosts |-> {}, ikeHosts |-> {}, created |-> {}]

(* History of the objects each session created that are still in the cluster:
   <<kind, name>>.  before and after are the objects of the kind when a call
   started and when it returned. *)
AfterCreate(s, kind, before, after) ==
    [added EXCEPT ![s].created = @ \cup {<<kind, n>> : n \in DOMAIN after \ DOMAIN before}]

AfterDelete(kind, before, after) ==
    [t \in DOMAIN added |->
        [added[t] EXCEPT !.created = @ \ {<<kind, n>> : n \in DOMAIN before \ DOMAIN after}]]

----------------------------------------------------------------------------
(* GatewayMutator and GatewayRevertor *)

(* GatewayMutator, lines 428-459. acc = [gws, statuses, err, calls] *)
RECURSIVE GatewayMutatorLoop(_, _, _, _, _, _)
GatewayMutatorLoop(s, targets, k, getFails, writeFails, acc) ==
    IF k > Len(targets) THEN acc
    ELSE LET name == targets[k].name IN
         IF name \notin DOMAIN acc.gws \/ name \in getFails
         THEN GatewayMutatorLoop(s, targets, k + 1, getFails, writeFails,
                  [acc EXCEPT !.statuses = AddResourceStatus(@,
                                   NewFailedResource(GatewayKind, EmptyStr, ActionLocated)),
                              !.err = TRUE])
         ELSE LET m == mutateGateway(s, acc.gws[name])
                  mutatedGw == referenceAdd(s, m.gw)
                  called == [acc EXCEPT !.calls = Append(@, <<"Update", GatewayKind, name>>)]
              IN IF name \in writeFails
                 THEN GatewayMutatorLoop(s, targets, k + 1, getFails, writeFails,
                          [called EXCEPT !.statuses = AddResourceStatus(@,
                                   NewFailedResource(GatewayKind, name, ActionModified)),
                                         !.err = TRUE])
                 ELSE GatewayMutatorLoop(s, targets, k + 1, getFails, writeFails,
                          [called EXCEPT !.gws = [@ EXCEPT ![name] = mutatedGw],
                                         !.statuses = AddResourceStatus(@,
                                   [NewSuccessResource(GatewayKind, name, ActionModified)
                                        EXCEPT !.hosts = Join(m.addedHosts, Comma)])])

(* The cluster calls that fail in one run: none, or the Get of one object, or
   every write (Create, Update, Delete) of one object. *)
NoFault == [kind |-> "ok", name |-> EmptyStr]

AllOutcomes == {"getFails", "writeFails"}

WriteOutcomes == {"writeFails"}

Faults(names, modes) == {NoFault} \cup [kind : modes, name : names]

(* the failure a call met: the injected one when the result differs from
   the result without it *)
Met(fault, result, undisturbed) ==
    IF fault.kind = "ok" THEN "ok"
    ELSE IF result # undisturbed THEN fault.kind ELSE "ok"

GetFails(fault) == IF fault.kind = "getFails" THEN {fault.name} ELSE {}

WriteFails(fault) == IF fault.kind = "writeFails" THEN {fault.name} ELSE {}

GatewayMutator(s, modes) ==
    \E fault \in Faults(DOMAIN gws, modes) :
      \E r \in {GatewayMutatorLoop(s, GetTargets(refs[s].targets, GatewayKind), 1,
                     GetFails(fault), WriteFails(fault),
                     [gws |-> gws, statuses |-> refs[s].statuses, err |-> FALSE,
                      calls |-> <<>>])} :
           /\ gws' = r.gws
           /\ refs' = [refs EXCEPT ![s].statuses = r.statuses]
           /\ last' = [RecordMutate("GatewayMutator", s, r.err, FALSE, r.calls, gws)
                          EXCEPT !.fault = Met(fault, r,
                              GatewayMutatorLoop(s, GetTargets(refs[s].targets, GatewayKind),
                                  1, {}, {},
                                  [gws |-> gws, statuses |-> refs[s].statuses,
                                   err |-> FALSE, calls |-> <<>>]))]
           /\ added' = [added EXCEPT
                           ![s].hosts = @ \cup (HostEntries(r.gws) \ HostEntries(gws)),
                           ![s].ikeHosts = @ \cup (IkeHostEntries(r.gws) \ IkeHostEntries(gws))]
           /\ UNCHANGED <<vss, deps, terminating, inflight, exec>>

(* GatewayRevertor, lines 471-497. acc = [gws, statuses, err, calls] *)
RECURSIVE GatewayRevertorLoop(_, _, _, _, _, _)
GatewayRevertorLoop(s, resources, k, getFails, writeFails, acc) ==
    IF k > Len(resources) THEN acc
    ELSE LET resource == resources[k]
             name == resource.name
         IN
         IF name \notin DOMAIN acc.gws
         THEN GatewayRevertorLoop(s, resources, k + 1, getFails, writeFails, acc)
         ELSE IF name \in getFails
         THEN GatewayRevertorLoop(s, resources, k + 1, getFails, writeFails,
                  [acc EXCEPT !.statuses = AddResourceStatus(@,
                                   NewFailedResource(GatewayKind, name, resource.action)),
                              !.err = TRUE])
         ELSE LET mutatedGw == referenceRemove(s, revertGateway(s, acc.gws[name]))
                  called == [acc EXCEPT !.calls = Append(@, <<"Update", GatewayKind, name>>)]
              IN IF name \in writeFails
                 THEN GatewayRevertorLoop(s, resources, k + 1, getFails, writeFails,
                          [called EXCEPT !.statuses = AddResourceStatus(@,
                                   NewFailedResource(GatewayKind, name, resource.action)),
                                         !.err = TRUE])
                 ELSE GatewayRevertorLoop(s, resources, k + 1, getFails, writeFails,
                          [called EXCEPT !.gws = [@ EXCEPT ![name] = mutatedGw],
                                         !.statuses = RemoveResourceStatus(@,
                                                          GatewayKind, name)])

GatewayRevertor(s, modes) ==
    \E fault \in Faults(DOMAIN gws, modes) :
      \E r \in {GatewayRevertorLoop(s, GetResources(refs[s].statuses, GatewayKind), 1,
                     GetFails(fault), WriteFails(fault),
                     [gws |-> gws, statuses |-> refs[s].statuses, err |-> FALSE,
                      calls |-> <<>>])} :
           /\ gws' = r.gws
           /\ refs' = [refs EXCEPT ![s].statuses = r.statuses]
           /\ last' = [RecordRevert("GatewayRevertor", "GatewayMutator", s, r.err, r.calls)
                          EXCEPT !.fault = Met(fault, r,
                              GatewayRevertorLoop(s,
                                  GetResources(refs[s].statuses, GatewayKind), 1, {}, {},
                                  [gws |-> gws, statuses |-> refs[s].statuses,
                                   err |-> FALSE, calls |-> <<>>]))]
           /\ added' = [added EXCEPT
                           ![s].hosts = @ \ (HostEntries(gws) \ HostEntries(r.gws)),
                           ![s].ikeHosts = @ \ (IkeHostEntries(gws) \ IkeHostEntries(r.gws))]
           /\ UNCHANGED <<vss, deps, terminating, inflight, exec>>

----------------------------------------------------------------------------
(* VirtualService: routes, rules and the functions that rewrite them.

   A destination is [host, subset, weight]; an HTTP rule is
   [match, route, mirror, redirect, add] where match is a list of match
   requests [uri, headers], mirror and redirect say whether the field is set,
   and add is Headers.Request.Add.  Header maps are sets of <<name, value>>. *)

(* HostName.Match: the short name or the name qualified by its namespace *)
HostMatch(hostName, host) ==
    \/ host = hostName.name
    \/ host = hostName.name \o <<Dot>> \o hostName.namespace

(* map[name] = value *)
SetHeader(headers, name, value) ==
    {p \in headers : p[1] # name} \cup {<<name, value>>}

GetVersion(ref) == ref.version

GetNewVersion(ref, sessionName) == ref.version \o <<Dash>> \o sessionName

targetsRoute(r, host, subset) ==
    HostMatch(host, r.host) /\ (r.subset = EmptyStr \/ r.subset = subset)

mutationRequired(vs, targetHost, targetVersion) ==
    \E i \in DOMAIN vs.http : \E n \in DOMAIN vs.http[i].route :
        targetsRoute(vs.http[i].route[n], targetHost, targetVersion)

(* a test that never finds the session's rule *)
neverAlreadyMutated(vs, targetHost, targetVersion) == FALSE

vsAlreadyMutated(vs, targetHost, targetVersion) ==
    \E i \in DOMAIN vs.http : \E n \in DOMAIN vs.http[i].route :
        /\ HostMatch(targetHost, vs.http[i].route[n].host)
        /\ vs.http[i].route[n].subset = targetVersion

connectedToGateway(vs) == Len(vs.gateways) > 0

(* findRoutes appends the rule once for every destination of it that targets
   the host: the number of times rule h is in the result *)
findRoutesCount(h, host, subset) ==
    Cardinality({n \in DOMAIN h.route : targetsRoute(h.route[n], host, subset)})

(* removeOtherRoutes on a slice of pointers.  arr is the backing array (of
   indexes into dests), len the length of http.Route, n the length the range
   was started with, i the 0-based range index.  Removing shifts the tail of
   the slice left inside the backing array; the range goes on reading the
   backing array.  http.Route[i+1:] panics when i+1 exceeds the length. *)
RECURSIVE removeOtherRoutesLoop(_, _, _, _, _, _, _)
removeOtherRoutesLoop(arr, len, n, i, dests, host, subset) ==
    IF ~(i < n) THEN [panic |-> FALSE, arr |-> arr, len |-> len]
    ELSE IF targetsRoute(dests[arr[i + 1]], host, subset)
         THEN removeOtherRoutesLoop(arr, len, n, i + 1, dests, host, subset)
         ELSE IF i + 1 > len
              THEN [panic |-> TRUE, arr |-> arr, len |-> len]
              ELSE removeOtherRoutesLoop(
                       SubSeq(arr, 1, i) \o SubSeq(arr, i + 2, len) \o SubSeq(arr, len, n),
                       len - 1, n, i + 1, dests, host, subset)

(* removeOtherRoutes on a rule that shares nothing with other rules: the
   destinations that are left, or a panic *)
removeOtherRoutes(route, host, subset) ==
    LET r == removeOtherRoutesLoop([i \in DOMAIN route |-> i], Len(route), Len(route), 0,
                                   route, host, subset)
    IN [panic |-> r.panic,
        route |-> IF r.panic THEN <<>> ELSE [i \in 1..r.len |-> route[r.arr[i]]]]

(* updateSubset and removeWeight write through the destination pointers of
   the slice *)
updateSubsetAndWeight(arr, len, dests, subset) ==
    LET touched == {arr[i] : i \in 1..len}
    IN [p \in DOMAIN dests |->
          IF p \in touched THEN [dests[p] EXCEPT !.subset = subset, !.weight = 0]
          ELSE dests[p]]

(* simplifyTargetRoute applied count times to copies of the same source rule:
   the copies share the backing array of Route and the destinations.
   acc = [panic, arr, dests, lens]; lens holds the slice length of each copy. *)
RECURSIVE simplifyShared(_, _, _, _, _, _)
simplifyShared(count, n, host, version, newVersion, acc) ==
    IF count = 0 \/ acc.panic THEN acc
    ELSE LET r == removeOtherRoutesLoop(acc.arr, n, n, 0, acc.dests, host, version)
         IN IF r.panic THEN [acc EXCEPT !.panic = TRUE]
            ELSE simplifyShared(count - 1, n, host, version, newVersion,
                     [panic |-> FALSE, arr |-> r.arr,
                      dests |-> updateSubsetAndWeight(r.arr, r.len, acc.dests, newVersion),
                      lens |-> Append(acc.lens, r.len)])

addHeaderMatch(match, route) ==
    IF Len(match) > 0
    THEN [i \in DOMAIN match |->
            IF route.type = "header"
            THEN [match[i] EXCEPT !.headers = SetHeader(@, route.name, route.value)]
            ELSE match[i]]
    ELSE <<[uri |-> "",
            headers |-> IF route.type = "header"
                        THEN {<<route.name, route.value>>} ELSE {}]>>

addHeaderRequest(http, route) ==
    [http EXCEPT !.add = SetHeader(@, route.name, route.value)]

(* the rules that simplifyTargetRoute (withMatch) or
   simplifyTargetRouteWithoutMatch prepends for one source rule h, in the order
   they are prepended; or a panic *)
simplifiedRules(h, host, version, newVersion, route, withMatch) ==
    LET n == Len(h.route)
        r == simplifyShared(findRoutesCount(h, host, version), n, host, version, newVersion,
                 [panic |-> FALSE, arr |-> [i \in 1..n |-> i], dests |-> h.route,
                  lens |-> <<>>])
    IN [panic |-> r.panic,
        rules |-> IF r.panic THEN <<>>
                  ELSE [j \in DOMAIN r.lens |->
                          [match |-> IF withMatch THEN addHeaderMatch(h.match, route)
                                     ELSE h.match,
                           route |-> [i \in 1..r.lens[j] |-> r.dests[r.arr[i]]],
                           mirror |-> FALSE,
                           redirect |-> FALSE,
                           add |-> h.add]]]

Reverse(list) == [i \in DOMAIN list |-> list[Len(list) + 1 - i]]

(* the loop over findRoutes' result: acc = [panic, rules], rules in the order
   they are prepended *)
RECURSIVE simplifyAll(_, _, _, _, _, _, _, _)
simplifyAll(http, i, host, version, newVersion, route, withMatch, acc) ==
    IF i > Len(http) \/ acc.panic THEN acc
    ELSE LET r == simplifiedRules(http[i], host, version, newVersion, route, withMatch)
         IN simplifyAll(http, i + 1, host, version, newVersion, route, withMatch,
                [panic |-> r.panic, rules |-> acc.rules \o r.rules])

RouteNotFound == "route not found"

(* a mutation that puts the new rules after the rules of the source *)
mutateVirtualServiceAppending(s, route, ref, hostName, source) ==
    LET r == simplifyAll(source.http, 1, hostName, GetVersion(ref), GetNewVersion(ref, s),
                 route, TRUE, [panic |-> FALSE, rules |-> <<>>])
    IN [err |-> "", panic |-> r.panic,
        vs |-> [source EXCEPT !.http = @ \o Reverse(r.rules)]]

(* mutateVirtualService: [err, panic, vs] *)
mutateVirtualService(s, route, ref, hostName, source) ==
    LET r == simplifyAll(source.http, 1, hostName, GetVersion(ref), GetNewVersion(ref, s),
                 route, TRUE, [panic |-> FALSE, rules |-> <<>>])
    IN IF ~mutationRequired(source, hostName, GetVersion(ref))
       THEN [err |-> RouteNotFound, panic |-> FALSE, vs |-> source]
       ELSE [err |-> "", panic |-> r.panic,
             vs |-> [source EXCEPT !.http = Reverse(r.rules) \o @]]

(* getHostsFromRef *)
RECURSIVE prefixAll(_, _)
prefixAll(s, hosts) ==
    IF hosts = <<>> THEN <<>>
    ELSE <<s \o <<Dot>> \o Head(hosts)>> \o prefixAll(s, Tail(hosts))

RECURSIVE hostsOfTargets(_, _)
hostsOfTargets(s, gwTargets) ==
    IF gwTargets = <<>> THEN <<>>
    ELSE prefixAll(s, Split(Head(gwTargets).ikeHosts, Comma))
            \o hostsOfTargets(s, Tail(gwTargets))

RECURSIVE getHostsFromRef(_, _, _)
getHostsFromRef(s, gateways, ref) ==
    IF gateways = <<>> THEN <<>>
    ELSE LET Is(x) == x.kind = GatewayKind /\ x.name = Head(gateways)
         IN hostsOfTargets(s, SelectSeq(ref.targets, Is))
                \o getHostsFromRef(s, Tail(gateways), ref)

DerivedName(name, s) == name \o <<Dash>> \o s

(* mutateConnectedVirtualService: [panic, vs]; the name of the result is
   DerivedName(source's name, s) *)
mutateConnectedVirtualService(s, route, ref, hostName, source) ==
    LET r == simplifyAll(source.http, 1, hostName, GetVersion(ref), GetNewVersion(ref, s),
                 route, FALSE, [panic |-> FALSE, rules |-> <<>>])
        http == Reverse(r.rules) \o source.http
    IN [panic |-> r.panic,
        vs |-> [source EXCEPT
                  !.hosts = getHostsFromRef(s, source.gateways, ref),
                  !.mutated = TRUE,
                  !.http = [i \in DOMAIN http |-> addHeaderRequest(http[i], route)]]]

(* revertVirtualService, lines 231-241: i is the 0-based index *)
RECURSIVE revertRuleLoop(_, _, _)
revertRuleLoop(subsetName, http, i) ==
    IF ~(i < Len(http)) THEN http
    ELSE IF \E n \in DOMAIN http[i + 1].route :
                Contains(http[i + 1].route[n].subset, subsetName)
         THEN revertRuleLoop(subsetName, RemoveAt(http, i + 1), (i - 1) + 1)
         ELSE revertRuleLoop(subsetName, http, i + 1)

revertVirtualService(subsetName, vs) ==
    [vs EXCEPT !.http = revertRuleLoop(subsetName, @, 0)]

----------------------------------------------------------------------------
(* VirtualServiceMutator and VirtualServiceRevertor *)

(* List returns the objects of the namespace in the order of their names *)
Alphabet == <<"-", ".", "1", "2", "d", "g", "h", "n", "o", "r", "s", "v">>

CharRank(c) == CHOOSE i \in DOMAIN Alphabet : Alphabet[i] = c

RECURSIVE StrLess(_, _)
StrLess(a, b) ==
    IF a = <<>> THEN b # <<>>
    ELSE IF b = <<>> THEN FALSE
    ELSE IF Head(a) = Head(b) THEN StrLess(Tail(a), Tail(b))
    ELSE CharRank(Head(a)) < CharRank(Head(b))

RECURSIVE SortedNames(_)
SortedNames(names) ==
    IF names = {} THEN <<>>
    ELSE LET m == CHOOSE x \in names : \A y \in names \ {x} : StrLess(x, y)
         IN <<m>> \o SortedNames(names \ {m})

RouteOf(s) == [type |-> "header", name |-> "x-test", value |-> s]

(* Update is refused when the object changed since it was read *)
UpdateFails(cluster, name, read, writeFails) ==
    name \in writeFails \/ name \notin DOMAIN cluster \/ cluster[name] # read

(* VirtualServiceMutator, lines 67-83: the pass over the gateway-connected
   objects.  items is the listing, acc = [vss, statuses, err, calls, panic]. *)
RECURSIVE ConnectedPass(_, _, _, _, _, _, _)
ConnectedPass(s, ref, hostName, items, k, writeFails, acc) ==
    IF k > Len(items) \/ acc.panic THEN acc
    ELSE LET vs == items[k].vs IN
         IF ~connectedToGateway(vs) \/ vs.mutated
         THEN ConnectedPass(s, ref, hostName, items, k + 1, writeFails, acc)
         ELSE LET m == mutateConnectedVirtualService(s, RouteOf(s), ref, hostName, vs)
                  name == DerivedName(items[k].name, s)
                  called == [acc EXCEPT !.calls = Append(@, <<"Create", VirtualServiceKind, name>>)]
              IN IF m.panic THEN [acc EXCEPT !.panic = TRUE]
                 ELSE IF name \in DOMAIN acc.vss
                 THEN ConnectedPass(s, ref, hostName, items, k + 1, writeFails,
                          [called EXCEPT !.statuses = AddResourceStatus(@,
                              NewSuccessResource(VirtualServiceKind, name, ActionCreated))])
                 ELSE IF name \in writeFails
                 THEN ConnectedPass(s, ref, hostName, items, k + 1, writeFails,
                          [called EXCEPT !.statuses = AddResourceStatus(@,
                              NewFailedResource(VirtualServiceKind, name, ActionCreated)),
                                         !.err = TRUE])
                 ELSE ConnectedPass(s, ref, hostName, items, k + 1, writeFails,
                          [called EXCEPT !.vss = (name :> m.vs) @@ @,
                                         !.statuses = AddResourceStatus(@,
                              NewSuccessResource(VirtualServiceKind, name, ActionCreated))])

(* VirtualServiceMutator, lines 84-108: the in-place pass *)
RECURSIVE InPlacePass(_, _, _, _, _, _, _)
InPlacePass(s, ref, hostName, items, k, writeFails, acc) ==
    IF k > Len(items) \/ acc.panic THEN acc
    ELSE LET vs == items[k].vs
             name == items[k].name
         IN
         IF \/ ~mutationRequired(vs, hostName, GetVersion(ref))
            \/ vsAlreadyMutated(vs, hostName, GetNewVersion(ref, s))
         THEN InPlacePass(s, ref, hostName, items, k + 1, writeFails, acc)
         ELSE LET m == mutateVirtualService(s, RouteOf(s), ref, hostName, vs)
                  mutatedVs == referenceAdd(s, m.vs)
                  called == [acc EXCEPT !.calls = Append(@, <<"Update", VirtualServiceKind, name>>)]
              IN IF m.panic THEN [acc EXCEPT !.panic = TRUE]
                 ELSE IF m.err # ""
                 THEN InPlacePass(s, ref, hostName, items, k + 1, writeFails,
                          [acc EXCEPT !.statuses = AddResourceStatus(@,
                              NewFailedResource(VirtualServiceKind, name, ActionModified)),
                                      !.err = TRUE])
                 ELSE IF UpdateFails(acc.vss, name, vs, writeFails)
                 THEN InPlacePass(s, ref, hostName, items, k + 1, writeFails,
                          [called EXCEPT !.statuses = AddResourceStatus(@,
                              NewFailedResource(VirtualServiceKind, name, ActionModified)),
                                         !.err = TRUE])
                 ELSE InPlacePass(s, ref, hostName, items, k + 1, writeFails,
                          [called EXCEPT !.vss = [@ EXCEPT ![name] = mutatedVs],
                                         !.statuses = AddResourceStatus(@,
                              NewSuccessResource(VirtualServiceKind, name, ActionModified))])

(* VirtualServiceMutator, lines 66-109: the loop over the target host names *)
RECURSIVE HostNamesLoop(_, _, _, _, _, _)
HostNamesLoop(s, ref, hostNames, items, writeFails, acc) ==
    IF hostNames = <<>> \/ acc.panic THEN acc
    ELSE HostNamesLoop(s, ref, Tail(hostNames), items, writeFails,
             InPlacePass(s, ref, Head(hostNames), items, 1, writeFails,
                 ConnectedPass(s, ref, Head(hostNames), items, 1, writeFails, acc)))

Listing(cluster) ==
    LET names == SortedNames(DOMAIN cluster)
    IN [i \in DOMAIN names |-> [name |-> names[i], vs |-> cluster[names[i]]]]

VirtualServiceNames(s) == DOMAIN vss \cup {DerivedName(n, s) : n \in DOMAIN vss}

VirtualServiceMutator(s, modes) ==
    \E fault \in Faults(VirtualServiceNames(s), modes) :
      \E r \in {IF fault.kind = "getFails"
                THEN [vss |-> vss,
                      statuses |-> AddResourceStatus(refs[s].statuses,
                          NewFailedResource(VirtualServiceKind, Namespace, ActionLocated)),
                      err |-> TRUE, calls |-> <<>>, panic |-> FALSE]
                ELSE HostNamesLoop(s, refs[s], refs[s].hostNames, Listing(vss),
                         WriteFails(fault),
                         [vss |-> vss, statuses |-> refs[s].statuses, err |-> FALSE,
                          calls |-> <<>>, panic |-> FALSE])} :
           /\ vss' = r.vss
           /\ refs' = IF r.panic THEN refs ELSE [refs EXCEPT ![s].statuses = r.statuses]
           /\ last' = [RecordMutate("VirtualServiceMutator", s, r.err, r.panic, r.calls, vss)
                          EXCEPT !.fault = Met(fault, r,
                              HostNamesLoop(s, refs[s], refs[s].hostNames, Listing(vss), {},
                                  [vss |-> vss, statuses |-> refs[s].statuses,
                                   err |-> FALSE, calls |-> <<>>, panic |-> FALSE]))]
           /\ added' = AfterCreate(s, VirtualServiceKind, vss, r.vss)
           /\ UNCHANGED <<gws, deps, terminating, inflight, exec>>

(* VirtualServiceRevertor, lines 120-157. acc = [vss, statuses, err, calls] *)
RECURSIVE VirtualServiceRevertorLoop(_, _, _, _, _, _, _)
VirtualServiceRevertorLoop(s, ref, resources, k, getFails, writeFails, acc) ==
    IF k > Len(resources) THEN acc
    ELSE LET resource == resources[k]
             name == resource.name
             failed == [acc EXCEPT !.statuses = AddResourceStatus(@,
                            NewFailedResource(VirtualServiceKind, name, resource.action))]
         IN
         IF name \notin DOMAIN acc.vss
         THEN VirtualServiceRevertorLoop(s, ref, resources, k + 1, getFails, writeFails, acc)
         ELSE IF name \in getFails
         THEN VirtualServiceRevertorLoop(s, ref, resources, k + 1, getFails, writeFails, failed)
         ELSE IF resource.action = ActionModified
         THEN LET mutatedVs == referenceRemove(s,
                                   revertVirtualService(GetNewVersion(ref, s), acc.vss[name]))
              IN IF name \in writeFails
                 THEN VirtualServiceRevertorLoop(s, ref, resources, k + 1, getFails, writeFails,
                          [failed EXCEPT !.err = TRUE,
                              !.calls = Append(@, <<"Update", VirtualServiceKind, name>>)])
                 ELSE VirtualServiceRevertorLoop(s, ref, resources, k + 1, getFails, writeFails,
                          [acc EXCEPT !.vss = [@ EXCEPT ![name] = mutatedVs],
                              !.calls = Append(@, <<"Update", VirtualServiceKind, name>>),
                              !.statuses = RemoveResourceStatus(@, VirtualServiceKind, name)])
         ELSE IF resource.action = ActionCreated
         THEN IF name \in writeFails
              THEN VirtualServiceRevertorLoop(s, ref, resources, k + 1, getFails, writeFails,
                       [failed EXCEPT !.err = TRUE,
                           !.calls = Append(@, <<"Delete", VirtualServiceKind, name>>)])
              ELSE VirtualServiceRevertorLoop(s, ref, resources, k + 1, getFails, writeFails,
                       [acc EXCEPT !.vss = [n \in DOMAIN @ \ {name} |-> @[n]],
                           !.calls = Append(@, <<"Delete", VirtualServiceKind, name>>),
                           !.statuses = RemoveResourceStatus(@, VirtualServiceKind, name)])
         ELSE VirtualServiceRevertorLoop(s, ref, resources, k + 1, getFails, writeFails,
                  [acc EXCEPT !.statuses = RemoveResourceStatus(@, VirtualServiceKind, name)])

VirtualServiceRevertor(s, modes) ==
    \E fault \in Faults(DOMAIN vss, modes) :
      \E r \in {VirtualServiceRevertorLoop(s, refs[s],
                    GetResources(refs[s].statuses, VirtualServiceKind), 1,
                    GetFails(fault), WriteFails(fault),
                    [vss |-> vss, statuses |-> refs[s].statuses, err |-> FALSE,
                     calls |-> <<>>])} :
           /\ vss' = r.vss
           /\ refs' = [refs EXCEPT ![s].statuses = r.statuses]
           /\ last' = [RecordRevert("VirtualServiceRevertor", "VirtualServiceMutator",
                                    s, r.err, r.calls)
                          EXCEPT !.fault = Met(fault, r,
                              VirtualServiceRevertorLoop(s, refs[s],
                                  GetResources(refs[s].statuses, VirtualServiceKind), 1,
                                  {}, {},
                                  [vss |-> vss, statuses |-> refs[s].statuses,
                                   err |-> FALSE, calls |-> <<>>]))]
           /\ added' = AfterDelete(VirtualServiceKind, vss, r.vss)
           /\ UNCHANGED <<gws, deps, terminating, inflight, exec>>

----------------------------------------------------------------------------
(* DeploymentMutator and DeploymentRevertor *)

(* the name the template engine gives the clone *)
CloneName(name, s) == name \o <<Dash>> \o s

(* a mutator that creates the clone and records nothing *)
DeploymentMutatorRunUnrecorded(s, ref, fault, cluster) ==
    LET target == GetTargets(ref.targets, DeploymentKind)[1]
        clone == CloneName(target.name, s)
        created == target.name \in DOMAIN cluster /\ clone \notin DOMAIN cluster
    IN [deps |-> IF created
                 THEN (clone :> referenceAdd(s, [cluster[target.name] EXCEPT !.refs = {}]))
                          @@ cluster
                 ELSE cluster,
        statuses |-> ref.statuses, err |-> FALSE,
        calls |-> IF created THEN <<<<"Create", DeploymentKind, clone>>>> ELSE <<>>]

(* a mutator that clones whatever the strategy of the ref is *)
DeploymentMutatorRunAnyStrategy(s, ref, fault, cluster) ==
    LET target == GetTargets(ref.targets, DeploymentKind)[1]
        clone == CloneName(target.name, s)
    IN IF clone \in DOMAIN cluster
       THEN [deps |-> cluster, statuses |-> ref.statuses, err |-> FALSE, calls |-> <<>>]
       ELSE [deps |-> (clone :> referenceAdd(s, [cluster[target.name] EXCEPT !.refs = {}]))
                          @@ cluster,
             statuses |-> AddResourceStatus(ref.statuses,
                              NewSuccessResource(DeploymentKind, clone, ActionCreated)),
             err |-> FALSE, calls |-> <<<<"Create", DeploymentKind, clone>>>>]

(* a mutator that calls Create without looking for the clone first *)
DeploymentMutatorRunCreatesAnyway(s, ref, fault, cluster) ==
    LET target == GetTargets(ref.targets, DeploymentKind)[1]
        clone == CloneName(target.name, s)
        create == <<<<"Create", DeploymentKind, clone>>>>
    IN IF clone \in DOMAIN cluster \/ clone \in WriteFails(fault)
       THEN [deps |-> cluster,
             statuses |-> AddResourceStatus(ref.statuses,
                              NewFailedResource(DeploymentKind, clone, ActionCreated)),
             err |-> TRUE, calls |-> create]
       ELSE [deps |-> (clone :> referenceAdd(s, [cluster[target.name] EXCEPT !.refs = {}]))
                          @@ cluster,
             statuses |-> AddResourceStatus(ref.statuses,
                              NewSuccessResource(DeploymentKind, clone, ActionCreated)),
             err |-> FALSE, calls |-> create]

(* DeploymentMutator, lines 68-111: [deps, statuses, err, calls] *)
DeploymentMutatorRun(s, ref, fault, cluster) ==
    LET targets == GetTargets(ref.targets, DeploymentKind)
        unchanged == [deps |-> cluster, statuses |-> ref.statuses, err |-> FALSE,
                      calls |-> <<>>]
        target == targets[1]
        clone == CloneName(target.name, s)
        create == <<<<"Create", DeploymentKind, clone>>>>
    IN IF Len(targets) = 0 THEN unchanged
       ELSE IF target.name \in GetFails(fault) THEN [unchanged EXCEPT !.err = TRUE]
       ELSE IF target.name \notin DOMAIN cluster THEN unchanged
       ELSE IF ref.strategy = StrategyExisting THEN unchanged
       ELSE IF fault.kind = "templateFails" THEN [unchanged EXCEPT !.err = TRUE]
       ELSE IF clone \in DOMAIN cluster /\ clone \notin GetFails(fault) THEN unchanged
       ELSE IF clone \in DOMAIN cluster \/ clone \in WriteFails(fault)
       THEN [deps |-> cluster,
             statuses |-> AddResourceStatus(ref.statuses,
                              NewFailedResource(DeploymentKind, clone, ActionCreated)),
             err |-> TRUE, calls |-> create]
       ELSE [deps |-> (clone :> referenceAdd(s, [cluster[target.name] EXCEPT !.refs = {}]))
                          @@ cluster,
             statuses |-> AddResourceStatus(ref.statuses,
                              NewSuccessResource(DeploymentKind, clone, ActionCreated)),
             err |-> FALSE, calls |-> create]

DeploymentNames(s) == DOMAIN deps \cup {CloneName(n, s) : n \in DOMAIN deps}

DeploymentMutator(s, modes) ==
    \E fault \in Faults(DeploymentNames(s), modes) :
      \E r \in {DeploymentMutatorRun(s, refs[s], fault, deps)} :
           /\ deps' = r.deps
           /\ refs' = [refs EXCEPT ![s].statuses = r.statuses]
           /\ last' = [RecordMutate("DeploymentMutator", s, r.err, FALSE, r.calls, deps)
                          EXCEPT !.fault = Met(fault, r,
                                               DeploymentMutatorRun(s, refs[s], NoFault, deps))]
           /\ added' = AfterCreate(s, DeploymentKind, deps, r.deps)
           /\ UNCHANGED <<gws, vss, terminating, inflight, exec>>

(* DeploymentRevertor, lines 117-136: [deps, statuses, err, calls]; the loop
   ends at the first Delete that fails, also when it reports not-found *)
RECURSIVE DeploymentRevertorLoop(_, _, _, _, _)
DeploymentRevertorLoop(s, statuses, k, writeFails, acc) ==
    IF k > Len(statuses) THEN acc
    ELSE LET status == statuses[k]
             called == [acc EXCEPT
                          !.calls = Append(@, <<"Delete", DeploymentKind, status.name>>)]
         IN IF status.name \in writeFails
            THEN [called EXCEPT !.statuses = AddResourceStatus(@,
                      NewFailedResource(DeploymentKind, status.name, status.action)),
                                !.err = TRUE]
            ELSE IF status.name \notin DOMAIN acc.deps
            THEN called
            ELSE DeploymentRevertorLoop(s, statuses, k + 1, writeFails,
                     [called EXCEPT !.deps = [n \in DOMAIN @ \ {status.name} |-> @[n]],
                                    !.statuses = RemoveResourceStatus(@,
                                                     DeploymentKind, status.name)])

DeploymentRevertor(s, modes) ==
    \E fault \in Faults(DOMAIN deps, modes) :
      \E r \in {DeploymentRevertorLoop(s, GetResources(refs[s].statuses, DeploymentKind), 1,
                    WriteFails(fault),
                    [deps |-> deps, statuses |-> refs[s].statuses, err |-> FALSE,
                     calls |-> <<>>])} :
           /\ deps' = r.deps
           /\ refs' = [refs EXCEPT ![s].statuses = r.statuses]
           /\ last' = [RecordRevert("DeploymentRevertor", "DeploymentMutator",
                                    s, r.err, r.calls)
                          EXCEPT !.fault = Met(fault, r,
                              DeploymentRevertorLoop(s,
                                  GetResources(refs[s].statuses, DeploymentKind), 1, {},
                                  [deps |-> deps, statuses |-> refs[s].statuses,
                                   err |-> FALSE, calls |-> <<>>]))]
           /\ added' = AfterDelete(DeploymentKind, deps, r.deps)
           /\ UNCHANGED <<gws, vss, terminating, inflight, exec>>

----------------------------------------------------------------------------
(* Gateways of the initial cluster *)

HostH == <<"h">>

(* a configured host that has the form <session>.<host> for session d *)
HostDH == <<"d", ".", "h">>

BaseHosts == {HostH, HostDH}

HostLists ==
    {hl \in UNION {[1..n -> BaseHosts] : n \in 1..MaxHosts} :
        \A i, j \in DOMAIN hl : i # j => hl[i] # hl[j]}

ServerLists == UNION {[1..n -> HostLists] : n \in 1..MaxServers}

NewGateway(servers) ==
    [servers |-> servers, hasIkeHosts |-> FALSE, ikeHosts |-> EmptyStr, refs |-> {}]

GatewayTarget == NewLocatedResource(GatewayKind, GwName, EmptyStr)

InitGw ==
    /\ \E servers \in ServerLists : gws = (GwName :> NewGateway(servers))
    /\ vss = <<>>
    /\ deps = <<>>
    /\ refs = [s \in Sessions |-> NewRef(<<GatewayTarget>>)]
    /\ last = NoOp
    /\ added = [s \in Sessions |-> NothingAdded]
    /\ terminating = {}
    /\ inflight = NoReads
    /\ exec = NotExecuting

NextGw ==
    \E s \in Sessions :
        \/ GatewayMutator(s, WriteOutcomes)
        \/ GatewayRevertor(s, WriteOutcomes)

SpecGw == InitGw /\ [][NextGw]_vars

----------------------------------------------------------------------------
(* The mesh routes of the initial cluster *)

MaxRules == 2

HostRatings == <<"r">>

HostOther == <<"o">>

NewDestination(host, subset) == [host |-> host, subset |-> subset, weight |-> 50]

NewRule(match, route, mirror) ==
    [match |-> match, route |-> route, mirror |-> mirror, redirect |-> FALSE, add |-> {}]

(* a rule routing the target host on the current version *)
RuleRatings == NewRule(<<>>, <<NewDestination(HostRatings, VersionV1)>>, FALSE)

(* a rule with a match and a mirror that splits between the target host
   (without a subset) and another service *)
RuleSplit ==
    NewRule(<<[uri |-> "/api", headers |-> {}]>>,
            <<NewDestination(HostRatings, EmptyStr), NewDestination(HostOther, VersionV1)>>,
            TRUE)

(* a rule that does not route to the target host *)
RuleOther == NewRule(<<>>, <<NewDestination(HostOther, VersionV1)>>, FALSE)

RuleChoices == {RuleRatings, RuleSplit, RuleOther}

RuleLists == UNION {[1..n -> RuleChoices] : n \in 1..MaxRules}

VsName == <<"v", "s">>

NewVirtualService(gateways, http) ==
    [gateways |-> gateways, mutated |-> FALSE, hosts |-> <<HostRatings>>, http |-> http,
     refs |-> {}]

NewDeployment == [refs |-> {}]

DeploymentTarget == NewLocatedResource(DeploymentKind, HostRatings, EmptyStr)

(* the located gateway target carries the hosts of the gateway in its
   ike.hosts label *)
LocatedGateway == NewLocatedResource(GatewayKind, GwName, HostH)

NoOutcomes == {}

(* the gateway locator adds the gateway target when the route object is
   attached to the gateway *)
TargetsFor(gateways) ==
    IF gateways = <<>> THEN <<DeploymentTarget>> ELSE <<DeploymentTarget, LocatedGateway>>

InitVs ==
    /\ gws = (GwName :> NewGateway(<<<<HostH>>>>))
    /\ \E gateways \in {<<>>, <<GwName>>}, http \in RuleLists :
          /\ vss = (VsName :> NewVirtualService(gateways, http))
          /\ refs = [s \in Sessions |-> NewRef(TargetsFor(gateways))]
    /\ deps = (HostRatings :> NewDeployment)
    /\ last = NoOp
    /\ added = [s \in Sessions |-> NothingAdded]
    /\ terminating = {}
    /\ inflight = NoReads
    /\ exec = NotExecuting

NextVs ==
    \E s \in Sessions :
        \/ VirtualServiceMutator(s, NoOutcomes)
        \/ VirtualServiceRevertor(s, NoOutcomes)

SpecVs == InitVs /\ [][NextVs]_vars

(* Sessions being applied: the three mutators of every session on one
   cluster *)
NextApply ==
    \E s \in Sessions :
        \/ DeploymentMutator(s, NoOutcomes)
        \/ GatewayMutator(s, NoOutcomes)
        \/ VirtualServiceMutator(s, NoOutcomes)

SpecApply == InitVs /\ [][NextApply]_vars

----------------------------------------------------------------------------
(* Claims about the gateway *)

Gw == gws[GwName]

SameGatewayContent(a, b) ==
    /\ a.servers = b.servers
    /\ a.hasIkeHosts = b.hasIkeHosts
    /\ a.ikeHosts = b.ikeHosts

(* a successful GatewayRevertor run of session s that directly followed a
   successful GatewayMutator run of s that started without s on the gateway *)
GatewayRoundTrip(s) ==
    /\ last.op = "GatewayRevertor" /\ last.s = s /\ last.roundTrip
    /\ s \notin last.pre[GwName].refs

(* C1: after mutateGateway for S followed by revertGateway for S, both
   succeeding, every server's host list and the ike.hosts annotation are as
   they were before the mutation. *)
C1_GatewayRoundTrip ==
    \A s \in Sessions :
        GatewayRoundTrip(s) => SameGatewayContent(Gw, last.pre[GwName])

SuccessfulGatewayRevert(s) ==
    /\ last'.op = "GatewayRevertor" /\ last'.s = s /\ ~last'.err
    /\ Len(last'.calls) > 0

(* C4: a successful revertGateway for S1 removes from the server host lists
   and from ike.hosts exactly the entries that S1's mutateGateway added. *)
C4_GatewayRevertExact ==
    [][\A s \in Sessions :
          SuccessfulGatewayRevert(s) =>
            /\ HostEntries(gws) \ HostEntries(gws') = added[s].hosts
            /\ IkeHostEntries(gws) \ IkeHostEntries(gws') = added[s].ikeHosts]_vars

HostSets(g) == [k \in DOMAIN g.servers |-> SeqToSet(g.servers[k])]

IkeHostSet(g) == SeqToSet(existingHostsOf(g))

(* C5: mutateGateway for S1 then S2 leaves the same set of hosts on every
   server and the same set of ike.hosts entries as S2 then S1 would have,
   starting from the same gateway. *)
C5_GatewayMutationCommutes ==
    [][\A s1, s2 \in Sessions :
          (/\ last.op = "GatewayMutator" /\ last.s = s1 /\ ~last.err
           /\ last'.op = "GatewayMutator" /\ last'.s = s2 /\ ~last'.err)
          => LET other == mutateGateway(s1, mutateGateway(s2, last.pre[GwName]).gw).gw
             IN /\ HostSets(gws'[GwName]) = HostSets(other)
                /\ IkeHostSet(gws'[GwName]) = IkeHostSet(other)]_vars

(* C8: every host listed in ike.hosts is listed by at least one server of the
   gateway. *)
C8_IkeHostsListedByServer ==
    \A n \in DOMAIN gws :
        \A h \in IkeHostSet(gws[n]) :
            \E k \in DOMAIN gws[n].servers : existInList(gws[n].servers[k], h)

(* a gateway that carries recorded hosts of one session right after another
   session's hosts were reverted *)
C8_Witness ==
    /\ last.op = "GatewayRevertor" /\ ~last.err /\ Len(last.calls) > 0
    /\ IkeHostSet(Gw) # {}

----------------------------------------------------------------------------
(* Claims about the mesh routes *)

NewVersionOf(s) == GetNewVersion(refs[s], s)

(* a rule injected for session s routes to the subset named by s's new
   version *)
InjectedFor(rule, s) ==
    \E n \in DOMAIN rule.route : rule.route[n].subset = NewVersionOf(s)

WasUpdated(calls, n) ==
    \E i \in DOMAIN calls : calls[i] = <<"Update", VirtualServiceKind, n>>

(* object n was modified in place by VirtualServiceMutator for s, and
   VirtualServiceRevertor for s has run right after it, both succeeding *)
VirtualServiceRoundTrip(s, n) ==
    /\ last.op = "VirtualServiceRevertor" /\ last.s = s /\ last.roundTrip
    /\ n \in DOMAIN last.pre
    /\ WasUpdated(last.preCalls, n)

(* C2: after VirtualServiceMutator for S modified an object in place and
   VirtualServiceRevertor for S ran, the object still exists and its HTTP rule
   list is the one it had before the mutator ran, in the same order. *)
C2_VirtualServiceRoundTrip ==
    \A s \in Sessions : \A n \in DOMAIN last.pre :
        VirtualServiceRoundTrip(s, n)
        => n \in DOMAIN vss /\ vss[n].http = last.pre[n].http

SuccessfulVirtualServiceRevert(s) ==
    last'.op = "VirtualServiceRevertor" /\ last'.s = s /\ ~last'.err

(* C3: a successful VirtualServiceRevertor step for S1 takes out of every
   object it leaves in the cluster only rules injected for S1: the rules
   that are left are the rules that were not injected for S1, so every
   rule injected for another session S2 stays. *)
C3_RevertLeavesOtherSessions ==
    [][\A s1 \in Sessions :
          SuccessfulVirtualServiceRevert(s1)
          => \A n \in DOMAIN vss \cap DOMAIN vss' :
                LET NotOfS1(rule) == ~InjectedFor(rule, s1)
                IN vss'[n].http = vss[n].http
                      \/ vss'[n].http = SelectSeq(vss[n].http, NotOfS1)]_vars

(* the session that created a derived object is the one its name ends with *)
CreatedBy(n, s) == \E src \in DOMAIN vss : n # src /\ n = DerivedName(src, s)

(* C9: every object labelled ike.mutated carries a back-reference to the
   session that created it. *)
C9_MutatedObjectsNameTheirSession ==
    \A n \in DOMAIN vss :
        vss[n].mutated => \E s \in Sessions : CreatedBy(n, s) /\ s \in vss[n].refs

(* C10: a VirtualServiceMutator step of a session neither writes to an object
   labelled ike.mutated that another session created nor creates an object
   derived from it. *)
C10_MutatedObjectsAreLeftAlone ==
    [][\A s \in Sessions :
          (last'.op = "VirtualServiceMutator" /\ last'.s = s)
          => \A n \in DOMAIN vss :
                (vss[n].mutated /\ ~CreatedBy(n, s))
                => /\ n \in DOMAIN vss' /\ vss'[n] = vss[n]
                   /\ (DerivedName(n, s) \in DOMAIN vss' => DerivedName(n, s) \in DOMAIN vss)
                ]_vars

----------------------------------------------------------------------------
(* Claims about applying a session again *)

(* C6: a mutator that runs for a session directly after it succeeded for the
   same session leaves every deployment, gateway and route object as it is,
   and adds or removes none. *)
C6_MutateIdempotent ==
    [][last'.again => (deps' = deps /\ gws' = gws /\ vss' = vss)]_vars

C6_Witness ==
    /\ last.again /\ last.op = "VirtualServiceMutator"
    /\ DerivedName(VsName, last.s) \in DOMAIN vss
    /\ CloneName(HostRatings, last.s) \in DOMAIN deps
    /\ \E k \in DOMAIN Gw.servers :
          existInList(Gw.servers[k], last.s \o <<Dot>> \o HostH)

HasStatus(s, kind, name, action) ==
    \E i \in DOMAIN refs[s].statuses :
        LET st == refs[s].statuses[i]
        IN st.kind = kind /\ st.name = name /\ st.action = action /\ st.success

(* the session's clone exists, its route object has been modified in place,
   and no route object is attached to a gateway *)
Applied(s) ==
    /\ CloneName(HostRatings, s) \in DOMAIN deps
    /\ HasStatus(s, DeploymentKind, CloneName(HostRatings, s), ActionCreated)
    /\ HasStatus(s, VirtualServiceKind, VsName, ActionModified)
    /\ \E i \in DOMAIN vss[VsName].http : InjectedFor(vss[VsName].http[i], s)
    /\ \A n \in DOMAIN vss : ~connectedToGateway(vss[n])
    /\ GetTargets(refs[s].targets, GatewayKind) = <<>>

(* C7: once a session is applied and no route object is attached to a
   gateway, a mutator run for the session issues no call that writes and
   leaves the statuses of the ref as they are. *)
C7_ReapplyWritesNothing ==
    [][\A s \in Sessions :
          (Applied(s) /\ last'.s = s)
          => last'.calls = <<>> /\ refs'[s].statuses = refs[s].statuses]_vars

C7_Witness ==
    /\ Applied(last.s) /\ last.again /\ last.calls = <<>>
    /\ last.op \in {"DeploymentMutator", "VirtualServiceMutator"}

----------------------------------------------------------------------------
(* Claims about the two passes of VirtualServiceMutator and the ledger *)

(* C11: a VirtualServiceMutator step leaves every route object that is
   attached to a gateway as it is: such an object is only the source of a
   derived object and is never updated. *)
C11_ConnectedObjectsNotUpdated ==
    [][\A s \in Sessions :
          (last'.op = "VirtualServiceMutator" /\ last'.s = s)
          => \A n \in DOMAIN vss :
                connectedToGateway(vss[n]) => (n \in DOMAIN vss' /\ vss'[n] = vss[n])]_vars

(* A cluster in which an object with the name of session d's derived route
   object exists before any session is applied *)
ExistingName == DerivedName(VsName, SessionD)

ExistingRuleLists == [1..1 -> RuleChoices]

InitOwn ==
    /\ gws = (GwName :> NewGateway(<<<<HostH>>>>))
    /\ \E http \in RuleLists, existing \in ExistingRuleLists :
          vss = (VsName :> NewVirtualService(<<GwName>>, http))
                    @@ (ExistingName :> NewVirtualService(<<>>, existing))
    /\ refs = [s \in Sessions |-> NewRef(TargetsFor(<<GwName>>))]
    /\ deps = (HostRatings :> NewDeployment)
    /\ last = NoOp
    /\ added = [s \in Sessions |-> NothingAdded]
    /\ terminating = {}
    /\ inflight = NoReads
    /\ exec = NotExecuting

NextOwn ==
    \E s \in Sessions :
        \/ VirtualServiceMutator(s, NoOutcomes)
        \/ VirtualServiceRevertor(s, NoOutcomes)

SpecOwn == InitOwn /\ [][NextOwn]_vars

ObjectsOf(kind) ==
    IF kind = DeploymentKind THEN deps
    ELSE IF kind = VirtualServiceKind THEN vss
    ELSE gws

(* C12: every successful Created status on the ref of a session names an
   object that the session created itself, if the object is in the cluster. *)
C12_CreatedStatusNamesOwnObject ==
    \A s \in Sessions : \A i \in DOMAIN refs[s].statuses :
        LET st == refs[s].statuses[i]
        IN (st.action = ActionCreated /\ st.success /\ st.name \in DOMAIN ObjectsOf(st.kind))
           => <<st.kind, st.name>> \in added[s].created

Mutators == {"DeploymentMutator", "GatewayMutator", "VirtualServiceMutator"}

(* the names of the objects that a step added or changed *)
Written(before, after) ==
    {n \in DOMAIN after : n \notin DOMAIN before \/ before[n] # after[n]}

Recorded(statuses, kind, name) ==
    \E i \in DOMAIN statuses : statuses[i].kind = kind /\ statuses[i].name = name

(* C13: when a mutator step returns success, the ref holds a status with the
   kind and the name of every object the step created or changed. *)
C13_WritesAreRecorded ==
    [][\A s \in Sessions :
          (last'.op \in Mutators /\ last'.s = s /\ ~last'.err /\ ~last'.panic)
          => /\ \A n \in Written(deps, deps') :
                    Recorded(refs'[s].statuses, DeploymentKind, n)
             /\ \A n \in Written(gws, gws') :
                    Recorded(refs'[s].statuses, GatewayKind, n)
             /\ \A n \in Written(vss, vss') :
                    Recorded(refs'[s].statuses, VirtualServiceKind, n)]_vars

C13_Witness ==
    /\ last.op = "VirtualServiceMutator" /\ ~last.err /\ ~last.panic
    /\ WasUpdated(last.calls, VsName)
    /\ <<VirtualServiceKind, DerivedName(VsName, last.s)>> \in added[last.s].created
    /\ <<DeploymentKind, CloneName(HostRatings, last.s)>> \in added[last.s].created
    /\ last.s \in Gw.refs
    /\ Recorded(refs[last.s].statuses, VirtualServiceKind, VsName)
    /\ Recorded(refs[last.s].statuses, VirtualServiceKind, DerivedName(VsName, last.s))
    /\ Recorded(refs[last.s].statuses, DeploymentKind, CloneName(HostRatings, last.s))
    /\ Recorded(refs[last.s].statuses, GatewayKind, GwName)

----------------------------------------------------------------------------
(* Deployments: cloning and deleting the clone, with calls that fail and with
   clones that somebody else removes *)

TemplateOutcomes == {"getFails", "writeFails", "templateFails"}

(* another client of the cluster deletes the clone of a session *)
DeploymentGone(s) ==
    LET clone == CloneName(HostRatings, s)
    IN /\ clone \in DOMAIN deps
       /\ deps' = [n \in DOMAIN deps \ {clone} |-> deps[n]]
       /\ added' = AfterDelete(DeploymentKind, deps, deps')
       /\ last' = [NoOp EXCEPT !.op = "DeploymentGone", !.s = s]
       /\ UNCHANGED <<gws, vss, refs, terminating, inflight, exec>>

InitDep ==
    /\ gws = <<>>
    /\ vss = <<>>
    /\ deps = (HostRatings :> NewDeployment)
    /\ \E strategy \in {StrategyClone, StrategyExisting} :
          refs = [s \in Sessions |->
                    [NewRef(<<DeploymentTarget>>) EXCEPT !.strategy = strategy]]
    /\ last = NoOp
    /\ added = [s \in Sessions |-> NothingAdded]
    /\ terminating = {}
    /\ inflight = NoReads
    /\ exec = NotExecuting

NextDep ==
    \E s \in Sessions :
        \/ DeploymentMutator(s, TemplateOutcomes)
        \/ DeploymentRevertor(s, WriteOutcomes)
        \/ DeploymentGone(s)

SpecDep == InitDep /\ [][NextDep]_vars

(* call <<verb, kind, name>> is in calls, and an Update of the same object
   comes before it *)
UpdatedBefore(calls, verb, kind, name) ==
    \E i, j \in DOMAIN calls :
        i < j /\ calls[i] = <<"Update", kind, name>> /\ calls[j] = <<verb, kind, name>>

(* C14: when a revertor step of a session deletes an object that carries the
   session's back-reference, the step updates the object (taking the
   back-reference off) before it deletes it. *)
C14_DetachBeforeDelete ==
    [][\A s \in Sessions :
          (last'.op \in {"DeploymentRevertor", "VirtualServiceRevertor"} /\ last'.s = s)
          => /\ \A n \in DOMAIN deps \ DOMAIN deps' :
                    s \in deps[n].refs
                    => UpdatedBefore(last'.calls, "Delete", DeploymentKind, n)
             /\ \A n \in DOMAIN vss \ DOMAIN vss' :
                    s \in vss[n].refs
                    => UpdatedBefore(last'.calls, "Delete", VirtualServiceKind, n)]_vars

FailedStatus(s, kind, action) ==
    \E i \in DOMAIN refs[s].statuses :
        LET st == refs[s].statuses[i]
        IN st.kind = kind /\ st.action = action /\ ~st.success

(* C15: when the template engine fails in a DeploymentMutator step, the step
   returns an error, creates no object, and leaves a failed Created status for
   a Deployment on the ref. *)
C15_TemplateFailureRecorded ==
    [][\A s \in Sessions :
          (last'.op = "DeploymentMutator" /\ last'.s = s /\ last'.fault = "templateFails")
          => /\ last'.err
             /\ deps' = deps
             /\ FailedStatus(s, DeploymentKind, ActionCreated)']_vars

CloneStatus(s, success) ==
    \E i \in DOMAIN refs[s].statuses :
        refs[s].statuses[i] =
            IF success
            THEN NewSuccessResource(DeploymentKind, CloneName(HostRatings, s), ActionCreated)
            ELSE NewFailedResource(DeploymentKind, CloneName(HostRatings, s), ActionCreated)

(* C16: a DeploymentMutator step whose Create fails returns an error and
   leaves a failed Created status with the name of the clone on the ref; a
   step that finds the clone in the cluster returns success and calls no
   Create. *)
C16_CreateFailureAndExistingClone ==
    [][\A s \in Sessions :
          (last'.op = "DeploymentMutator" /\ last'.s = s)
          => /\ last'.fault = "writeFails"
                    => last'.err /\ CloneStatus(s, FALSE)' /\ deps' = deps
             /\ (last'.fault = "ok" /\ CloneName(HostRatings, s) \in DOMAIN deps)
                    => ~last'.err /\ last'.calls = <<>> /\ deps' = deps]_vars

C16_Witness ==
    /\ last.op = "DeploymentMutator" /\ last.fault = "writeFails" /\ last.err
    /\ last.calls = <<<<"Create", DeploymentKind, CloneName(HostRatings, last.s)>>>>
    /\ CloneStatus(last.s, FALSE)
    /\ \E t \in Sessions \ {last.s} : CloneName(HostRatings, t) \in DOMAIN deps

C16_ExistingCloneReached ==
    /\ last.op = "DeploymentMutator" /\ last.fault = "ok" /\ ~last.err /\ last.again
    /\ last.calls = <<>> /\ CloneName(HostRatings, last.s) \in DOMAIN deps

(* C17: a DeploymentRevertor step in which no Delete fails (a clone that is
   gone answers not-found) returns success and leaves no Deployment status on
   the ref; a step in which a Delete fails returns an error and keeps a
   Deployment status on the ref. *)
C17_DeploymentRevertNotFound ==
    [][\A s \in Sessions :
          (last'.op = "DeploymentRevertor" /\ last'.s = s)
          => /\ last'.fault = "ok"
                    => /\ ~last'.err
                       /\ GetResources(refs'[s].statuses, DeploymentKind) = <<>>
             /\ last'.fault = "writeFails"
                    => /\ last'.err
                       /\ GetResources(refs'[s].statuses, DeploymentKind) # <<>>]_vars

(* The calls of a step hold an Update or a Delete of the VirtualService name. *)
WroteVirtualService(calls, name) ==
    \E i \in DOMAIN calls :
        /\ calls[i][1] \in {"Update", "Delete"}
        /\ calls[i][2] = VirtualServiceKind
        /\ calls[i][3] = name

(* C18: in a VirtualServiceRevertor step every VirtualService status of the
   ref whose object no longer exists is removed, a status is removed only
   when its object was gone or was written by the step, and a status that
   stays names an object the step left as it was. *)
C18_StatusRemovedWhenReverted ==
    [][\A s \in Sessions :
          (last'.op = "VirtualServiceRevertor" /\ last'.s = s)
          => \A i \in DOMAIN refs[s].statuses :
                LET st == refs[s].statuses[i]
                    kept == Recorded(refs'[s].statuses, VirtualServiceKind, st.name)
                IN st.kind = VirtualServiceKind
                   => /\ st.name \notin DOMAIN vss => ~kept
                      /\ ~kept => \/ st.name \notin DOMAIN vss
                                  \/ WroteVirtualService(last'.calls, st.name)
                      /\ kept => /\ st.name \in DOMAIN vss'
                                 /\ st.name \in DOMAIN vss
                                 /\ vss'[st.name] = vss[st.name]]_vars

----------------------------------------------------------------------------
(* Session deletion.  The session object is marked for deletion and the
   surrounding controller loop then re-invokes the revertors of every kind
   until the statuses of the ref drain; the mutators run only for a session
   that is not being deleted.  Every cluster call succeeds or answers
   not-found. *)

Terminate(s) ==
    /\ s \notin terminating
    /\ terminating' = terminating \cup {s}
    /\ last' = [NoOp EXCEPT !.op = "Terminate", !.s = s]
    /\ UNCHANGED <<gws, vss, deps, refs, added, inflight, exec>>

Reconcile(s) ==
    /\ s \notin terminating
    /\ \/ DeploymentMutator(s, NoOutcomes)
       \/ GatewayMutator(s, NoOutcomes)
       \/ VirtualServiceMutator(s, NoOutcomes)

Finalize(s) ==
    /\ s \in terminating
    /\ \/ DeploymentRevertor(s, NoOutcomes)
       \/ GatewayRevertor(s, NoOutcomes)
       \/ VirtualServiceRevertor(s, NoOutcomes)

InitDel ==
    /\ gws = (GwName :> NewGateway(<<<<HostH>>>>))
    /\ vss = (VsName :> NewVirtualService(<<GwName>>, <<RuleRatings>>))
    /\ refs = [s \in Sessions |-> NewRef(TargetsFor(<<GwName>>))]
    /\ deps = (HostRatings :> NewDeployment)
    /\ last = NoOp
    /\ added = [s \in Sessions |-> NothingAdded]
    /\ terminating = {}
    /\ inflight = NoReads
    /\ exec = NotExecuting

NextDel ==
    \E s \in Sessions :
        \/ Reconcile(s)
        \/ Terminate(s)
        \/ Finalize(s)
        \/ DeploymentGone(s)

(* The controller loop keeps re-invoking each revertor of a session that is
   being deleted. *)
FairDel ==
    \A s \in Sessions :
        /\ WF_vars(s \in terminating /\ DeploymentRevertor(s, NoOutcomes))
        /\ WF_vars(s \in terminating /\ GatewayRevertor(s, NoOutcomes))
        /\ WF_vars(s \in terminating /\ VirtualServiceRevertor(s, NoOutcomes))

SpecDel == InitDel /\ [][NextDel]_vars /\ FairDel

(* C19: once a session is being deleted, the repeated revertors eventually
   leave the statuses of its ref empty. *)
C19_DeletionConverges ==
    \A s \in Sessions : (s \in terminating) ~> (refs[s].statuses = <<>>)

(* No HTTP rule of any VirtualService routes to a target host of the ref of
   session s. *)
NoRouteTo(s) ==
    \A n \in DOMAIN vss : \A k \in DOMAIN refs[s].hostNames :
        ~mutationRequired(vss[n], refs[s].hostNames[k], GetVersion(refs[s]))

(* C20: a VirtualServiceMutator step for a session whose target host no HTTP
   rule of a VirtualService routes to leaves a VirtualService status with
   action Modified and success false on the ref. *)
C20_RouteNotFoundRecorded ==
    [][\A s \in Sessions :
          (last'.op = "VirtualServiceMutator" /\ last'.s = s /\ NoRouteTo(s))
          => FailedStatus(s, VirtualServiceKind, ActionModified)']_vars

----------------------------------------------------------------------------
(* Locating the target workload.  The ref carries the name its session asks
   for; the locator looks the Deployment up and appends it to the targets
   of the ref when it exists. *)

NameNope == <<"n", "o", "p", "e">>

RefNames == {HostRatings, NameNope}

NewNamedRef(name) == [name |-> name] @@ NewRef(<<>>)

(* a locator that adds the target without looking the Deployment up *)
DeploymentLocatorAlways(ref, fault, cluster) ==
    [found |-> TRUE,
     targets |-> Append(ref.targets,
                        NewLocatedResource(DeploymentKind, ref.name, EmptyStr))]

(* DeploymentLocator, lines 47-63: [found, targets] *)
DeploymentLocatorRun(ref, fault, cluster) ==
    IF ref.name \in GetFails(fault) \/ ref.name \notin DOMAIN cluster
    THEN [found |-> FALSE, targets |-> ref.targets]
    ELSE [found |-> TRUE,
          targets |-> Append(ref.targets,
                             NewLocatedResource(DeploymentKind, ref.name, EmptyStr))]

(* the locators run on a ref that has no Deployment target yet *)
DeploymentLocator(s, modes) ==
    /\ GetTargets(refs[s].targets, DeploymentKind) = <<>>
    /\ \E fault \in Faults({refs[s].name}, modes) :
         \E r \in {DeploymentLocatorRun(refs[s], fault, deps)} :
           /\ refs' = [refs EXCEPT ![s].targets = r.targets]
           /\ last' = [NoOp EXCEPT !.op = "DeploymentLocator", !.s = s,
                                   !.fault = IF r.found THEN "found" ELSE "missing"]
           /\ UNCHANGED <<gws, vss, deps, added, terminating, inflight, exec>>

InitLocate ==
    /\ gws = <<>>
    /\ vss = <<>>
    /\ deps = (HostRatings :> NewDeployment)
    /\ refs \in [Sessions -> {NewNamedRef(n) : n \in RefNames}]
    /\ last = NoOp
    /\ added = [s \in Sessions |-> NothingAdded]
    /\ terminating = {}
    /\ inflight = NoReads
    /\ exec = NotExecuting

NextLocate ==
    \E s \in Sessions :
        \/ DeploymentLocator(s, {"getFails"})
        \/ DeploymentMutator(s, WriteOutcomes)
        \/ DeploymentRevertor(s, WriteOutcomes)

SpecLocate == InitLocate /\ [][NextLocate]_vars

(* the ref of session s names a workload that is not in the cluster *)
MissingTarget(s) == refs[s].name \notin DOMAIN deps

(* C21: a ref whose target workload does not exist has no Deployment target
   and no status, the locator answers false for it, and no call made on its
   behalf writes to the cluster or returns an error. *)
C21_MissingTargetNeverActedOn ==
    \A s \in Sessions :
        MissingTarget(s)
        => /\ GetTargets(refs[s].targets, DeploymentKind) = <<>>
           /\ refs[s].statuses = <<>>
           /\ last.s = s => /\ last.calls = <<>>
                            /\ ~last.err
                            /\ last.op = "DeploymentLocator" => last.fault = "missing"

C21_Witness ==
    \E s \in Sessions :
        /\ MissingTarget(s)
        /\ last.s = s
        /\ last.op = "DeploymentMutator"
        /\ \E t \in Sessions \ {s} : refs[t].statuses # <<>>

(* C22: a DeploymentMutator step for a ref with strategy Existing in which
   no call fails returns success, makes no call, creates no Deployment and
   leaves the statuses of the ref as they were, with no Deployment status. *)
C22_ExistingStrategyClonesNothing ==
    [][\A s \in Sessions :
          (/\ last'.op = "DeploymentMutator" /\ last'.s = s
           /\ refs[s].strategy = StrategyExisting
           /\ last'.fault = "ok")
          => /\ ~last'.err
             /\ last'.calls = <<>>
             /\ deps' = deps
             /\ refs'[s].statuses = refs[s].statuses
             /\ GetResources(refs'[s].statuses, DeploymentKind) = <<>>]_vars

C22_Witness ==
    /\ last.op = "DeploymentMutator"
    /\ last.fault = "ok"
    /\ ~last.err
    /\ refs[last.s].strategy = StrategyExisting
    /\ GetTargets(refs[last.s].targets, DeploymentKind) # <<>>
    /\ HostRatings \in DOMAIN deps

(* the indexes of the HTTP rules of vs that route the target host of session
   s on its current version *)
MatchingRules(vs, s) ==
    {i \in DOMAIN vs.http :
        \E n \in DOMAIN vs.http[i].route :
            targetsRoute(vs.http[i].route[n], refs[s].hostNames[1], GetVersion(refs[s]))}

(* rule matches the route header of session s on every match it has, has at
   least one match, and routes only to the target host on the new version of s *)
HeaderMatchedFor(rule, s) ==
    /\ rule.match # <<>>
    /\ \A m \in DOMAIN rule.match :
          <<RouteOf(s).name, RouteOf(s).value>> \in rule.match[m].headers
    /\ rule.route # <<>>
    /\ \A n \in DOMAIN rule.route :
          /\ HostMatch(refs[s].hostNames[1], rule.route[n].host)
          /\ rule.route[n].subset = NewVersionOf(s)

(* C23: on a cluster where the VirtualService has no gateways and exactly one
   HTTP rule routing the target host on the current version, a
   VirtualServiceMutator step of a session that is not yet routed puts one
   rule before the rules that were there, which follow unchanged and in
   order; the new rule matches the route header of the session and routes to
   its new version; the step records VirtualService/vs = Modified, and a
   DeploymentMutator step records Deployment/clone = Created for the clone it
   leaves in the cluster. *)
C23_CreateOnCleanCluster ==
    [][\A s \in Sessions :
          /\ (/\ last'.op = "VirtualServiceMutator" /\ last'.s = s
              /\ DOMAIN vss = {VsName}
              /\ ~connectedToGateway(vss[VsName])
              /\ Cardinality(MatchingRules(vss[VsName], s)) = 1
              /\ ~vsAlreadyMutated(vss[VsName], refs[s].hostNames[1], NewVersionOf(s)))
             => /\ ~last'.err /\ ~last'.panic
                /\ DOMAIN vss' = {VsName}
                /\ Tail(vss'[VsName].http) = vss[VsName].http
                /\ HeaderMatchedFor(Head(vss'[VsName].http), s)
                /\ HasStatus(s, VirtualServiceKind, VsName, ActionModified)'
          /\ (last'.op = "DeploymentMutator" /\ last'.s = s)
             => /\ CloneName(HostRatings, s) \in DOMAIN deps'
                /\ HasStatus(s, DeploymentKind, CloneName(HostRatings, s),
                             ActionCreated)']_vars

C23_Witness ==
    /\ last.op = "VirtualServiceMutator"
    /\ WasUpdated(last.calls, VsName)
    /\ Applied(last.s)
    /\ Len(vss[VsName].http) = 2
    /\ HeaderMatchedFor(vss[VsName].http[1], last.s)
    /\ vss[VsName].http[2] = RuleRatings

(* C24: when VirtualServiceMutator creates the derived object of a
   gateway-connected VirtualService that has one HTTP rule, routing the target
   host on the current version, the derived object is named
   <source>-<session>, is labelled ike.mutated, and has a single HTTP rule,
   which routes to the new version of the session and adds the route header
   of the session to the request. *)
C24_DerivedObjectHasOneRule ==
    [][\A s \in Sessions :
          LET derived == DerivedName(VsName, s)
          IN (/\ last'.op = "VirtualServiceMutator" /\ last'.s = s
              /\ VsName \in DOMAIN vss
              /\ connectedToGateway(vss[VsName])
              /\ Len(vss[VsName].http) = 1
              /\ MatchingRules(vss[VsName], s) = {1}
              /\ derived \notin DOMAIN vss)
             => /\ derived \in DOMAIN vss'
                /\ vss'[derived].mutated
                /\ Len(vss'[derived].http) = 1
                /\ \A n \in DOMAIN vss'[derived].http[1].route :
                      vss'[derived].http[1].route[n].subset = NewVersionOf(s)
                /\ <<RouteOf(s).name, RouteOf(s).value>> \in vss'[derived].http[1].add]_vars

----------------------------------------------------------------------------
(* Gateway exposure with a located gateway target whose ike.hosts label is
   empty or holds the host of the gateway. *)

TargetLabels == {EmptyStr, HostH}

InitHosts ==
    /\ gws = (GwName :> NewGateway(<<<<HostH>>>>))
    /\ \E http \in [1..1 -> RuleChoices] :
          vss = (VsName :> NewVirtualService(<<GwName>>, http))
    /\ \E label \in TargetLabels :
          refs = [s \in Sessions |->
                    NewRef(<<DeploymentTarget,
                             NewLocatedResource(GatewayKind, GwName, label)>>)]
    /\ deps = (HostRatings :> NewDeployment)
    /\ last = NoOp
    /\ added = [s \in Sessions |-> NothingAdded]
    /\ terminating = {}
    /\ inflight = NoReads
    /\ exec = NotExecuting

NextHosts ==
    \E s \in Sessions :
        \/ GatewayMutator(s, NoOutcomes)
        \/ GatewayRevertor(s, NoOutcomes)
        \/ VirtualServiceMutator(s, NoOutcomes)
        \/ VirtualServiceRevertor(s, NoOutcomes)

SpecHosts == InitHosts /\ [][NextHosts]_vars

(* the hosts of a list that are empty or a session name followed by a dot
   and nothing else *)
EmptyHosts(hosts) ==
    {i \in DOMAIN hosts :
        hosts[i] = EmptyStr \/ \E s \in Sessions : hosts[i] = s \o <<Dot>>}

(* no gateway lists an empty host on a server or in ike.hosts *)
GatewaysHaveNoEmptyHost ==
    \A n \in DOMAIN gws :
        /\ \A k \in DOMAIN gws[n].servers : EmptyHosts(gws[n].servers[k]) = {}
        /\ EmptyHosts(existingHostsOf(gws[n])) = {}

(* C25: an empty ike.hosts value stands for no host at all: no host list of
   a gateway and no host set of a VirtualService holds an empty host or an
   entry "<session>." made from one. *)
C25_EmptyIkeHostsIsEmptySet ==
    /\ GatewaysHaveNoEmptyHost
    /\ \A n \in DOMAIN vss : EmptyHosts(vss[n].hosts) = {}

----------------------------------------------------------------------------
(* Failing cluster calls on one resource of a call that handles several. *)

InitFail ==
    /\ gws = (GwName :> NewGateway(<<<<HostH>>>>))
    /\ vss = (VsName :> NewVirtualService(<<GwName>>, <<RuleRatings>>))
    /\ refs = [s \in Sessions |-> NewRef(TargetsFor(<<GwName>>))]
    /\ deps = (HostRatings :> NewDeployment)
    /\ last = NoOp
    /\ added = [s \in Sessions |-> NothingAdded]
    /\ terminating = {}
    /\ inflight = NoReads
    /\ exec = NotExecuting

NextFail ==
    \E s \in {SessionD} :
        \/ GatewayMutator(s, AllOutcomes)
        \/ GatewayRevertor(s, AllOutcomes)
        \/ VirtualServiceMutator(s, WriteOutcomes)
        \/ VirtualServiceRevertor(s, AllOutcomes)

SpecFail == InitFail /\ [][NextFail]_vars

(* what the call of the step would leave if none of its cluster calls
   failed: the objects of its kind and the statuses of the ref *)
Undisturbed(op, s) ==
    LET start == [statuses |-> refs[s].statuses, err |-> FALSE, calls |-> <<>>]
        g == IF op = "GatewayMutator"
             THEN GatewayMutatorLoop(s, GetTargets(refs[s].targets, GatewayKind), 1,
                      {}, {}, [gws |-> gws] @@ start)
             ELSE GatewayRevertorLoop(s, GetResources(refs[s].statuses, GatewayKind), 1,
                      {}, {}, [gws |-> gws] @@ start)
        v == IF op = "VirtualServiceMutator"
             THEN HostNamesLoop(s, refs[s], refs[s].hostNames, Listing(vss), {},
                      [vss |-> vss, panic |-> FALSE] @@ start)
             ELSE VirtualServiceRevertorLoop(s, refs[s],
                      GetResources(refs[s].statuses, VirtualServiceKind), 1, {}, {},
                      [vss |-> vss] @@ start)
    IN IF op \in {"GatewayMutator", "GatewayRevertor"}
       THEN [objects |-> g.gws, statuses |-> g.statuses]
       ELSE [objects |-> v.vss, statuses |-> v.statuses]

ObjectAt(objects, n) == IF n \in DOMAIN objects THEN <<objects[n]>> ELSE <<>>

(* C26: in a step of VirtualServiceMutator, GatewayMutator,
   VirtualServiceRevertor or GatewayRevertor an error is returned exactly
   when a cluster call of the step failed, and apart from one resource every
   object is left as the call without the failure leaves it. *)
C26_FailuresSurfaceAndDoNotStrand ==
    [][\A s \in Sessions :
          (/\ last'.s = s
           /\ last'.op \in {"VirtualServiceMutator", "GatewayMutator",
                            "VirtualServiceRevertor", "GatewayRevertor"})
          => LET clean == Undisturbed(last'.op, s)
                 objects == IF last'.op \in {"GatewayMutator", "GatewayRevertor"}
                            THEN gws' ELSE vss'
                 Same(n) == ObjectAt(objects, n) = ObjectAt(clean.objects, n)
                 names == DOMAIN objects \cup DOMAIN clean.objects
             IN /\ last'.err <=> last'.fault # "ok"
                /\ \A n, m \in names : (~Same(n) /\ ~Same(m)) => n = m]_vars

----------------------------------------------------------------------------
(* Two sessions reconciling the same gateway concurrently.  GatewayMutator
   is split at its cluster calls: the Get reads the gateway with its resource
   version, the Update is refused by the server when the version has moved
   on since. *)

MaxVersion == 3

(* GatewayMutator, line 429: getGateway *)
GatewayGet(s) ==
    /\ inflight.read[s] = NoRead
    /\ inflight.version < MaxVersion
    /\ GwName \in DOMAIN gws
    /\ inflight' = [inflight EXCEPT
                       !.read[s] = <<[version |-> inflight.version, gw |-> gws[GwName]]>>]
    /\ last' = [NoOp EXCEPT !.op = "GatewayGet", !.s = s]
    /\ UNCHANGED <<gws, vss, deps, refs, added, terminating, exec>>

(* GatewayMutator, lines 437-459: mutateGateway on the object that was read,
   then Update, which the server refuses when the object is stale *)
GatewayUpdate(s) ==
    /\ inflight.read[s] # NoRead
    /\ LET read == inflight.read[s][1]
           stale == read.version # inflight.version
       IN \E r \in {GatewayMutatorLoop(s, GetTargets(refs[s].targets, GatewayKind), 1,
                        {}, IF stale THEN {GwName} ELSE {},
                        [gws |-> (GwName :> read.gw), statuses |-> refs[s].statuses,
                         err |-> FALSE, calls |-> <<>>])} :
            /\ gws' = IF stale THEN gws ELSE [gws EXCEPT ![GwName] = r.gws[GwName]]
            /\ refs' = [refs EXCEPT ![s].statuses = r.statuses]
            /\ inflight' = [version |-> IF stale THEN inflight.version
                                        ELSE inflight.version + 1,
                            read |-> [inflight.read EXCEPT ![s] = NoRead]]
            /\ last' = [RecordMutate("GatewayMutator", s, r.err, FALSE, r.calls, gws)
                           EXCEPT !.fault = IF stale THEN "conflict" ELSE "ok"]
            /\ added' = [added EXCEPT
                            ![s].hosts = @ \cup (HostEntries(gws') \ HostEntries(gws)),
                            ![s].ikeHosts =
                                @ \cup (IkeHostEntries(gws') \ IkeHostEntries(gws))]
            /\ UNCHANGED <<vss, deps, terminating, exec>>

InitConc ==
    /\ \E servers \in ServerLists : gws = (GwName :> NewGateway(servers))
    /\ vss = <<>>
    /\ deps = <<>>
    /\ refs = [s \in Sessions |-> NewRef(<<GatewayTarget>>)]
    /\ last = NoOp
    /\ added = [s \in Sessions |-> NothingAdded]
    /\ terminating = {}
    /\ inflight = NoReads
    /\ exec = NotExecuting

NextConc ==
    \E s \in Sessions :
        \/ GatewayGet(s)
        \/ GatewayUpdate(s)

SpecConc == InitConc /\ [][NextConc]_vars

(* the hosts that the successful Gateway status of session s says it added *)
RecordedHosts(s) ==
    UNION {IF st.kind = GatewayKind /\ st.success /\ st.hosts # EmptyStr
           THEN SeqToSet(Split(st.hosts, Comma)) ELSE {} :
               st \in SeqToSet(refs[s].statuses)}

(* C27: no update of the gateway is lost.  An Update of a gateway that
   changed since it was read is refused: it returns an error, records a
   failed status and leaves the gateway as it is.  The hosts that a session's
   successful run recorded are on a server of the gateway and in its
   ike.hosts, whatever the other session did in between. *)
C27_NoLostGatewayUpdate ==
    [][/\ \A s \in Sessions :
             (last'.op = "GatewayMutator" /\ last'.s = s
                 /\ inflight.read[s] # NoRead
                 /\ inflight.read[s][1].version # inflight.version)
             => /\ last'.err
                /\ gws' = gws
                /\ FailedStatus(s, GatewayKind, ActionModified)'
       /\ \A s \in Sessions :
             /\ RecordedHosts(s)' \subseteq UNION {HostSets(gws'[GwName])[k] :
                                                   k \in DOMAIN gws'[GwName].servers}
             /\ RecordedHosts(s)' \subseteq IkeHostSet(gws'[GwName])]_vars

C27_Witness ==
    /\ last.op = "GatewayMutator"
    /\ last.fault = "conflict"
    /\ last.err
    /\ inflight.version >= 1
    /\ \E s \in Sessions \ {last.s} : RecordedHosts(s) # {}

(* both sessions have completed a successful run and recorded their hosts *)
C27_BothRecorded ==
    /\ inflight.version >= 2
    /\ \A s \in Sessions : RecordedHosts(s) # {}
    /\ RecordedHosts(SessionD) # RecordedHosts(SessionD2)

----------------------------------------------------------------------------
(* removeOtherRoutes on its own: one HTTP rule with every list of
   destinations up to a length, in every order. *)

MaxDestinations == 3

VersionV2 == <<"v", "2">>

DestinationChoices ==
    {NewDestination(h, sub) : h \in {HostRatings, HostOther},
                              sub \in {EmptyStr, VersionV1, VersionV2}}

DestinationLists == UNION {[1..n -> DestinationChoices] : n \in 1..MaxDestinations}

InitRoutes ==
    /\ gws = <<>>
    /\ \E route \in DestinationLists :
          vss = (VsName :> NewVirtualService(<<>>, <<NewRule(<<>>, route, FALSE)>>))
    /\ refs = [s \in Sessions |-> NewRef(<<DeploymentTarget>>)]
    /\ deps = (HostRatings :> NewDeployment)
    /\ last = NoOp
    /\ added = [s \in Sessions |-> NothingAdded]
    /\ terminating = {}
    /\ inflight = NoReads
    /\ exec = NotExecuting

(* removeOtherRoutes(http, host, version) applied to the rule; a panic leaves
   the object as it was *)
RemoveOtherRoutes(s) ==
    /\ last.op = "none"
    /\ LET r == removeOtherRoutes(vss[VsName].http[1].route, refs[s].hostNames[1],
                                  GetVersion(refs[s]))
       IN /\ vss' = IF r.panic THEN vss
                    ELSE [vss EXCEPT ![VsName].http[1].route = r.route]
          /\ last' = [NoOp EXCEPT !.op = "removeOtherRoutes", !.s = s,
                                  !.panic = r.panic, !.pre = vss]
    /\ UNCHANGED <<gws, deps, refs, added, terminating, inflight, exec>>

NextRoutes == \E s \in Sessions : RemoveOtherRoutes(s)

SpecRoutes == InitRoutes /\ [][NextRoutes]_vars

(* the destinations of a list that route the target host of session s on its
   current version or without a subset, in their order *)
MatchingDestinations(route, s) ==
    LET Is(d) == targetsRoute(d, refs[s].hostNames[1], GetVersion(refs[s]))
    IN SelectSeq(route, Is)

(* C28: removeOtherRoutes completes without a failure and leaves exactly the
   destinations of its input that match the target host with the current
   version or no subset, in their original order. *)
C28_RemoveOtherRoutesExact ==
    last.op = "removeOtherRoutes"
    => /\ ~last.panic
       /\ vss[VsName].http[1].route
              = MatchingDestinations(last.pre[VsName].http[1].route, last.s)

----------------------------------------------------------------------------
(* In-place mutation of HTTP rules that all route to the target host, one of
   them through two destinations. *)

(* a rule with two destinations for the target host: the current version
   and no subset *)
RuleTwice ==
    NewRule(<<>>,
            <<NewDestination(HostRatings, VersionV1), NewDestination(HostRatings, EmptyStr)>>,
            FALSE)

MatchingRuleChoices == {RuleRatings, RuleSplit, RuleTwice}

InitRules ==
    /\ gws = <<>>
    /\ \E http \in UNION {[1..n -> MatchingRuleChoices] : n \in 1..MaxRules} :
          vss = (VsName :> NewVirtualService(<<>>, http))
    /\ refs = [s \in Sessions |-> NewRef(<<DeploymentTarget>>)]
    /\ deps = (HostRatings :> NewDeployment)
    /\ last = NoOp
    /\ added = [s \in Sessions |-> NothingAdded]
    /\ terminating = {}
    /\ inflight = NoReads
    /\ exec = NotExecuting

NextRules ==
    \E s \in Sessions :
        \/ VirtualServiceMutator(s, NoOutcomes)
        \/ VirtualServiceRevertor(s, NoOutcomes)

SpecRules == InitRules /\ [][NextRules]_vars

(* C29: a VirtualServiceMutator step that mutates a VirtualService in place
   for a session not yet routed prepends one rule for each HTTP rule that has
   a destination matching the target host on the current version or without
   subset, however many such destinations the rule has. *)
C29_OneRulePerMatchingRule ==
    [][\A s \in Sessions :
          (/\ last'.op = "VirtualServiceMutator" /\ last'.s = s
           /\ VsName \in DOMAIN vss
           /\ ~connectedToGateway(vss[VsName])
           /\ MatchingRules(vss[VsName], s) # {}
           /\ ~vsAlreadyMutated(vss[VsName], refs[s].hostNames[1], NewVersionOf(s)))
          => /\ VsName \in DOMAIN vss'
             /\ Len(vss'[VsName].http)
                    = Len(vss[VsName].http) + Cardinality(MatchingRules(vss[VsName], s))
             /\ \A i \in DOMAIN vss[VsName].http :
                    vss'[VsName].http[i + Cardinality(MatchingRules(vss[VsName], s))]
                        = vss[VsName].http[i]]_vars

----------------------------------------------------------------------------
(* The execute command (package execute).  The goroutines are: main (the
   body of execute), the restart loop started at line 174, one buildAndRun
   per instance, the goroutine that waits for the status of each run process,
   and the watch handler.  restart and kill are unbuffered channels: a send
   and a receive happen together.  hookChan has room for one signal.

   exec = [main, loop, value, events, instances, signal, sentOnClosed]
     main   "start" before restart <- 0, "wait" at <-hookChan, "kill" at
            kill <- struct{}{}, "return" at return nil with the deferred
            calls down to closeWatch(), "closeKill" after close(restart),
            "done" after close(kill)
     loop   "recv" at range restart, "kill" at kill <- struct{}{}, "spawn"
            at go buildAndRun, "ended" when range restart has ended
     value  the value the loop received last
     events the file-change events handled so far
     signal "none", "pending" in hookChan, "taken" by main
     sentOnClosed  the channels a goroutine sent on after their close; such
            a send panics and the panic ends the process
     an instance is [pc, proc, notify]:
       pc     "build" in builder, "start" before runner, "wait" at <-kill,
              "stop" before stopRun, "done"
       proc   the run process: "none", "live", "failed" (exit > 0),
              "exited" (exit 0), "stopped"
       notify the status goroutine: "idle", "send" at restart <- 10, "done" *)

MaxInstances == 3

MaxEvents == 2

Executing == exec.main # "none" /\ exec.sentOnClosed = {}

cluster == <<gws, vss, deps, refs, last, added, terminating, inflight>>

NewInstance == [pc |-> "build", proc |-> "none", notify |-> "idle"]

(* close(restart) and close(kill) are deferred in execute, lines 159 and 162,
   and run in the reverse order *)
RestartClosed == exec.main \in {"closeKill", "done"}

KillClosed == exec.main = "done"

(* the restarts asked for so far: each one leads to one more instance *)
Restarts ==
    exec.events
        + Cardinality({i \in DOMAIN exec.instances : exec.instances[i].proc = "failed"})

InitExec ==
    /\ gws = <<>>
    /\ vss = <<>>
    /\ deps = <<>>
    /\ refs = [s \in Sessions |-> NewRef(<<>>)]
    /\ last = NoOp
    /\ added = [s \in Sessions |-> NothingAdded]
    /\ terminating = {}
    /\ inflight = NoReads
    /\ exec = [NotExecuting EXCEPT !.main = "start", !.loop = "recv"]

(* the loop receives v from restart, line 175 *)
Received(v) == [exec EXCEPT !.loop = IF v > 0 THEN "kill" ELSE "spawn", !.value = v]

(* execute, line 195: restart <- 0 *)
InitialRestart ==
    /\ Executing /\ exec.main = "start" /\ exec.loop = "recv"
    /\ exec' = [Received(0) EXCEPT !.main = "wait"]
    /\ UNCHANGED cluster

(* the watch handler, line 142: restart <- 1.  The watch runs from w.Start(),
   line 153, before the loop and before restart <- 0, until closeWatch() *)
FileChanged ==
    /\ Executing /\ exec.main \in {"start", "wait", "kill", "return"}
    /\ exec.loop = "recv"
    /\ exec.events < MaxEvents /\ Restarts + 1 < MaxInstances
    /\ exec' = [Received(1) EXCEPT !.events = @ + 1]
    /\ UNCHANGED cluster

(* runExecutor, lines 253-258: the run process of instance i ends *)
RunEnded(i) ==
    /\ Executing /\ exec.instances[i].proc = "live"
    /\ \E failed \in {f \in BOOLEAN : f => Restarts + 1 < MaxInstances} :
          exec' = [exec EXCEPT
                      !.instances[i].proc = IF failed THEN "failed" ELSE "exited",
                      !.instances[i].notify = IF failed THEN "send" ELSE "done"]
    /\ UNCHANGED cluster

(* runExecutor, line 257: restart <- 10 *)
FailedRestart(i) ==
    /\ Executing /\ exec.loop = "recv" /\ ~RestartClosed
    /\ exec.instances[i].notify = "send"
    /\ exec' = [Received(10) EXCEPT !.instances[i].notify = "done"]
    /\ UNCHANGED cluster

(* runExecutor, line 257, after close(restart): the send panics *)
FailedRestartOnClosed(i) ==
    /\ Executing /\ RestartClosed
    /\ exec.instances[i].notify = "send"
    /\ exec' = [exec EXCEPT !.sentOnClosed = @ \cup {"restart"}]
    /\ UNCHANGED cluster

(* execute, line 177, with buildAndRun, line 269: kill is received by an
   instance that waits for it *)
LoopKills(i) ==
    /\ Executing /\ exec.loop = "kill" /\ ~KillClosed
    /\ exec.instances[i].pc = "wait"
    /\ exec' = [exec EXCEPT !.loop = "spawn", !.instances[i].pc = "stop"]
    /\ UNCHANGED cluster

(* execute, line 177, after close(kill): the send panics *)
LoopKillsOnClosed ==
    /\ Executing /\ exec.loop = "kill" /\ KillClosed
    /\ exec' = [exec EXCEPT !.sentOnClosed = @ \cup {"kill"}]
    /\ UNCHANGED cluster

(* execute, line 175: range restart ends when restart is closed *)
LoopEnded ==
    /\ Executing /\ exec.loop = "recv" /\ RestartClosed
    /\ exec' = [exec EXCEPT !.loop = "ended"]
    /\ UNCHANGED cluster

(* execute, line 179: go buildAndRun *)
Spawn ==
    /\ Executing /\ exec.loop = "spawn"
    /\ Len(exec.instances) < MaxInstances
    /\ exec' = [exec EXCEPT !.loop = "recv", !.instances = Append(@, NewInstance)]
    /\ UNCHANGED cluster

(* buildAndRun, line 266: the build has run to its end *)
Built(i) ==
    /\ Executing /\ exec.instances[i].pc = "build"
    /\ exec' = [exec EXCEPT !.instances[i].pc = "start"]
    /\ UNCHANGED cluster

(* buildAndRun, line 267, runExecutor, line 259: r.Start() *)
RunStarted(i) ==
    /\ Executing /\ exec.instances[i].pc = "start"
    /\ exec' = [exec EXCEPT !.instances[i].pc = "wait", !.instances[i].proc = "live"]
    /\ UNCHANGED cluster

(* buildAndRun, line 271: stopRun() *)
RunStopped(i) ==
    /\ Executing /\ exec.instances[i].pc = "stop"
    /\ exec' = [exec EXCEPT
                   !.instances[i].pc = "done",
                   !.instances[i].proc = IF @ = "live" THEN "stopped" ELSE @,
                   !.instances[i].notify = IF @ = "idle" THEN "done" ELSE @]
    /\ UNCHANGED cluster

(* signal.Notify, line 189: the termination signal arrives in hookChan *)
Signalled ==
    /\ Executing /\ exec.main \in {"start", "wait"}
    /\ exec.signal = "none"
    /\ exec' = [exec EXCEPT !.signal = "pending"]
    /\ UNCHANGED cluster

(* execute, line 197: <-hookChan *)
HookReceived ==
    /\ Executing /\ exec.main = "wait"
    /\ exec.signal = "pending"
    /\ exec' = [exec EXCEPT !.main = "kill", !.signal = "taken"]
    /\ UNCHANGED cluster

(* execute, line 199, with buildAndRun, line 269; execute then returns *)
MainKills(i) ==
    /\ Executing /\ exec.main = "kill"
    /\ exec.instances[i].pc = "wait"
    /\ exec' = [exec EXCEPT !.main = "return", !.instances[i].pc = "stop"]
    /\ UNCHANGED cluster

(* execute, lines 161-170: the deferred closeWatch() and close(restart) *)
CloseRestart ==
    /\ Executing /\ exec.main = "return"
    /\ exec' = [exec EXCEPT !.main = "closeKill"]
    /\ UNCHANGED cluster

(* execute, lines 158-159: the deferred close(kill) *)
CloseKill ==
    /\ Executing /\ exec.main = "closeKill"
    /\ exec' = [exec EXCEPT !.main = "done"]
    /\ UNCHANGED cluster

NextExec ==
    \/ InitialRestart
    \/ FileChanged
    \/ Spawn
    \/ Signalled
    \/ HookReceived
    \/ CloseRestart
    \/ CloseKill
    \/ LoopEnded
    \/ LoopKillsOnClosed
    \/ \E i \in DOMAIN exec.instances : RunEnded(i)
    \/ \E i \in DOMAIN exec.instances : FailedRestart(i)
    \/ \E i \in DOMAIN exec.instances : FailedRestartOnClosed(i)
    \/ \E i \in DOMAIN exec.instances : LoopKills(i)
    \/ \E i \in DOMAIN exec.instances : Built(i)
    \/ \E i \in DOMAIN exec.instances : RunStarted(i)
    \/ \E i \in DOMAIN exec.instances : RunStopped(i)
    \/ \E i \in DOMAIN exec.instances : MainKills(i)

SpecExec == InitExec /\ [][NextExec]_vars

LiveRuns == {i \in DOMAIN exec.instances : exec.instances[i].proc = "live"}

(* C30: the loop starts the next instance after a restart only when the kill
   was received by the instance that was running, and at most one run
   process is live at any time. *)
C30_AtMostOneRunLive ==
    /\ Cardinality(LiveRuns) <= 1
    /\ (exec.loop = "spawn" /\ exec.value > 0)
           => \E i \in DOMAIN exec.instances : exec.instances[i].pc \in {"stop", "done"}

(* The goroutines of execute keep running: every step of main, of the loop,
   of an instance and of a status goroutine is taken when it stays possible.
   A build runs to its end.  File changes, the end of a run process and the
   signal are left to the environment. *)
FairExec ==
    /\ WF_vars(InitialRestart)
    /\ WF_vars(Spawn)
    /\ WF_vars(HookReceived)
    /\ WF_vars(CloseRestart)
    /\ WF_vars(CloseKill)
    /\ WF_vars(LoopEnded)
    /\ WF_vars(LoopKillsOnClosed)
    /\ \A i \in 1..MaxInstances :
          /\ WF_vars(i \in DOMAIN exec.instances /\ FailedRestart(i))
          /\ WF_vars(i \in DOMAIN exec.instances /\ FailedRestartOnClosed(i))
          /\ WF_vars(i \in DOMAIN exec.instances /\ LoopKills(i))
          /\ WF_vars(i \in DOMAIN exec.instances /\ Built(i))
          /\ WF_vars(i \in DOMAIN exec.instances /\ RunStarted(i))
          /\ WF_vars(i \in DOMAIN exec.instances /\ RunStopped(i))
          /\ WF_vars(i \in DOMAIN exec.instances /\ MainKills(i))

SpecExecFair == InitExec /\ [][NextExec]_vars /\ FairExec

Returned == exec.main \in {"return", "closeKill", "done"}

(* C31: once the termination signal is received, execute delivers kill to
   the waiting instance, that instance stops its run process and execute
   returns. *)
C31_SignalStopsAndReturns ==
    (exec.signal # "none")
        ~> (/\ Returned
            /\ \E i \in DOMAIN exec.instances :
                  exec.instances[i].pc = "done" /\ exec.instances[i].proc # "live")

(* the part of C31 about execute alone: after the signal execute returns *)
C31_SignalReturns == (exec.signal # "none") ~> Returned

(* C32: no goroutine sends on kill or on restart after execute has closed
   the channel. *)
C32_NoSendAfterClose == exec.sentOnClosed = {}

(* the failed-run restart alone never sends on the closed restart channel *)
C32_NoRestartAfterClose == "restart" \notin exec.sentOnClosed

====
